---------------------------- MODULE Spec2Model ----------------------------
(***************************************************************************)
(* A model of the KeyMint trusted application (TA):                        *)
(*   - the latched start-of-day state of KeyMintTa (ta/src/lib.rs),        *)
(*   - the per-key use-count table (KeyMintTa::update_use_count),          *)
(*   - keyblob sealing and unsealing (common/src/keyblob.rs).              *)
(* The TA is single-threaded: every action below is one whole request,     *)
(* processed to completion.                                                *)
(***************************************************************************)
EXTENDS Integers, Sequences, FiniteSets, TLC

VARIABLES
    \* ---- KeyMintTa fields (ta/src/lib.rs:73-132)
    security_level,     \* hw_info.security_level, fixed on construction
    in_early_boot,      \* bool
    boot_info,          \* Option<BootInfo>
    rot_data,           \* Option<Vec<u8>>
    hal_info,           \* Option<HalInfo>
    hmac_key,           \* Option<Vec<u8>>
    rot_challenge,      \* [u8; 16]
    dev_attest_ids,     \* dev.attest_ids.is_some(), fixed on construction
    attestation_id_info, \* RefCell<Option<Rc<AttestationIdInfo>>>
    imp_clock,          \* imp.clock.is_some(), fixed on construction
    device_locked,      \* RefCell<LockState>
    imp_trace,          \* the collaborator calls the last request made, with their data
    rsp,                \* the PerformOpResponse of the last request processed
    note,               \* what the last request did to the latched value it targets
    \* ---- use-count table (ta/src/lib.rs:127-128)
    use_count,          \* [Option<UseCount>; MAX_USE_COUNTED_KEYS]
    uc_last,            \* the last update_use_count call and its result
    uc_stats,           \* per key ID: what the calls so far asked for and returned
    \* ---- keyblob sealing (common/src/keyblob.rs)
    sdd_present,        \* whether a SecureDeletionSecretManager is attached
    sdd_slots,          \* the manager's slots: slot -> Option<SecureDeletionData>
    drop_log,           \* the slots SlotHolder::drop has logged a failed delete for
    kb_issued,          \* the keyblobs encrypt has returned, with their sealing context
    kb_last,            \* the last encrypt / decrypt call, its trace and its result
    \* ---- the byte interface (ta/src/lib.rs:476-495)
    wire                \* the last process() call: what was received and what was sent

ta_vars == <<security_level, in_early_boot, boot_info, rot_data, hal_info,
             hmac_key, rot_challenge, dev_attest_ids, attestation_id_info, imp_clock,
             device_locked, imp_trace, rsp, note>>
lock_vars == <<imp_clock, device_locked, imp_trace>>
uc_vars == <<use_count, uc_last, uc_stats>>
kb_vars == <<sdd_present, sdd_slots, drop_log, kb_issued, kb_last>>
vars == <<ta_vars, uc_vars, kb_vars, wire>>

\* Option<T>: None is the empty tuple, Some(x) the one-element tuple.
None == <<>>
Some(x) == <<x>>
IsSome(o) == o # None
Unwrap(o) == o[1]

-----------------------------------------------------------------------------
(* Bounds of the model *)

\* Patchlevels range over 1..MaxPatchlevel.
MaxPatchlevel == 2
\* OS versions range over 0..MaxOsVersion.
MaxOsVersion == 1
\* Agreed HMAC keys and root-of-trust challenges drawn by the RNG range over
\* 1..MaxSecret.
MaxSecret == 1

\* update_use_count is called with max_uses in 0..MaxUses.
MaxUses == 2
\* Key IDs 1..ReusedKeys are used again after their first use.
ReusedKeys == 1
\* Calls per reused key ID while all its calls carry the same max_uses.
MaxCalls == 3

\* encrypt is called while fewer than MaxIssued keyblobs have been returned.
MaxIssued == 2
\* Timestamps run from 1 to MaxTime.
MaxTime == 2

-----------------------------------------------------------------------------
(* Values *)

SecurityLevels == {"TrustedEnvironment", "Strongbox"}
VerifiedBootStates == {"Verified", "SelfSigned", "Unverified", "Failed"}
Patchlevels == 1..MaxPatchlevel
OsVersions == 0..MaxOsVersion
HmacKeys == 1..MaxSecret
\* A key the TA never agrees on: what a sender without the HMAC key uses.
ForeignKey == 0
\* rot_challenge: 0 stands for the sixteen zero bytes of KeyMintTa::new.
ZeroChallenge == 0
Challenges == 0..MaxSecret

\* BootInfo (ta/src/lib.rs:166-172). The two 32-byte arrays take one value
\* each here, and a locked bootloader goes with the two states a locked
\* device can boot in; the fields that distinguish requests are the rest.
BootInfo == {b \in [verified_boot_key : {0}, device_boot_locked : BOOLEAN,
                    verified_boot_state : VerifiedBootStates,
                    verified_boot_hash : {0}, boot_patchlevel : Patchlevels] :
                b.device_boot_locked <=> b.verified_boot_state \in {"Verified", "SelfSigned"}}

\* HalInfo (ta/src/lib.rs:193-197).
HalInfo == [os_version : OsVersions, os_patchlevel : Patchlevels,
            vendor_patchlevel : Patchlevels]

\* RootOfTrustInfo::into_vec (common/src/keyblob.rs:182-188): the CBOR array
\* of the four fields in declaration order; boot_patchlevel is not part of it.
RootOfTrustInfo_into_vec(rot_info) ==
    <<"RootOfTrustInfo", rot_info.verified_boot_key, rot_info.device_boot_locked,
      rot_info.verified_boot_state, rot_info.verified_boot_hash>>

\* error_rsp: a PerformOpResponse with the error code and no payload.
error_rsp(err_code) == [error_code |-> err_code, rsp |-> None]

\* op_error_rsp(op, err): the error is logged and converted to its code.
op_error_rsp_with_payload(op, err) == [error_code |-> err, rsp |-> Some(op)]

op_error_rsp(op, err) == error_rsp(err)

\* The response an arm of process_req builds from the result of its method:
\* Ok(ret) gives error_code Ok and the PerformOpRsp variant of the operation,
\* Err(e) gives op_error_rsp. The model also keeps the operation answered.
Response(op, code) ==
    LET r == IF code = "Ok" THEN [error_code |-> "Ok", rsp |-> Some(op)]
             ELSE op_error_rsp(op, code)
    IN  [op |-> op, error_code |-> r.error_code, rsp |-> r.rsp]


-----------------------------------------------------------------------------
(* Collaborators of the TA: HMAC-SHA256 and COSE_Mac0, as symbolic terms *)

\* Hmac::begin / update / finish over `data` under `key`: a term that is
\* equal to another exactly when key and data are equal.
HmacSha256(key, data) == <<"hmac-sha256", key, data>>

\* The bytes a COSE_Mac0 tag is computed over (coset's MAC_structure): the
\* external AAD (here the challenge) and the payload.
Mac0Tbm(external_aad, payload) == <<"MAC0", external_aad, payload>>

\* A tagged, encoded BootInfo as carried in the COSE_Mac0 payload.
BootInfo_to_tagged_vec(b) == <<"BootInfo-40001", b>>
GarbagePayload == <<"not-a-BootInfo">>

\* BootInfo::from_tagged_slice: None when the bytes do not decode.
BootInfo_from_tagged_slice(payload) ==
    IF Len(payload) = 2 /\ payload[1] = "BootInfo-40001" THEN Some(payload[2]) ELSE None

\* The root_of_trust byte strings a caller may send: bytes that are no
\* COSE_Mac0 at all, or a COSE_Mac0 with an optional payload and a tag made
\* under key k for challenge c over the payload (or, when `tampered`, over
\* some other payload). The BootInfo payloads are those of a verified boot;
\* the tampered messages carry a BootInfo of the lowest patchlevel, the tag
\* being checked before the payload is looked at.
Mac0Payloads == {None, Some(GarbagePayload)} \cup
                {Some(BootInfo_to_tagged_vec(b)) :
                    b \in {x \in BootInfo : x.verified_boot_state = "Verified"}}
Mac0Message(k, c, payload, tampered) ==
    [decodes |-> TRUE, payload |-> payload,
     tag |-> HmacSha256(k, Mac0Tbm(c, IF tampered THEN <<"other">>
                                      ELSE IF payload = None THEN <<>> ELSE Unwrap(payload)))]
NotMac0 == [decodes |-> FALSE, payload |-> None, tag |-> <<>>]
TamperedPayloads == {p \in Mac0Payloads :
                        p # None /\ BootInfo_from_tagged_slice(Unwrap(p)) # None
                        /\ Unwrap(BootInfo_from_tagged_slice(Unwrap(p))).boot_patchlevel = 1}
RotMessages == {NotMac0} \cup
    {Mac0Message(k, c, p, FALSE) : k \in HmacKeys \cup {ForeignKey}, c \in Challenges,
                                   p \in Mac0Payloads} \cup
    {Mac0Message(k, c, p, TRUE) : k \in HmacKeys \cup {ForeignKey}, c \in Challenges,
                                  p \in TamperedPayloads}

-----------------------------------------------------------------------------
(* KeyMintTa: construction *)

\* LockState (ta/src/lib.rs:136-144).
Unlocked == <<"Unlocked">>
LockedSince(t) == <<"LockedSince", t>>
PasswordLockedSince(t) == <<"PasswordLockedSince", t>>

\* KeyMintTa::new for a given hw_info.security_level.
KeyMintTa_new(level, attest_ids, clock) ==
    /\ security_level = level
    /\ dev_attest_ids = attest_ids
    /\ imp_clock = clock
    /\ device_locked = Unlocked
    /\ imp_trace = [op |-> "none"]
    /\ in_early_boot = TRUE
    /\ hmac_key = None
    /\ rot_challenge = ZeroChallenge
    /\ boot_info = None
    /\ rot_data = None
    /\ hal_info = None
    /\ attestation_id_info = None
    /\ rsp = [op |-> "new", error_code |-> "Ok", rsp |-> None]
    /\ note = "none"
    /\ wire = [op |-> "none"]

\* A TA whose device has no attestation ID implementation and no clock.
TaNew(level) == KeyMintTa_new(level, FALSE, FALSE)

is_strongbox == security_level = "Strongbox"

-----------------------------------------------------------------------------
(* KeyMintTa: the methods that write the latched state *)

\* set_boot_info: the in_early_boot test only logs an error and falls
\* through; the value is latched when boot_info is None. (Encoding the
\* fixed-size RootOfTrustInfo does not fail, so the fallback bytes of
\* unwrap_or_else are never stored.)
set_boot_info_overwrite(b) ==
    /\ boot_info' = Some(b)
    /\ rot_data' = Some(RootOfTrustInfo_into_vec(b))

set_boot_info(b) ==
    IF boot_info = None
    THEN /\ boot_info' = Some(b)
         /\ rot_data' = Some(RootOfTrustInfo_into_vec(b))
    ELSE UNCHANGED <<boot_info, rot_data>>

set_hal_info_overwrite(h) == hal_info' = Some(h)

set_hal_info(h) ==
    IF hal_info = None
    THEN hal_info' = Some(h)
    ELSE UNCHANGED hal_info

early_boot_ended_toggle == in_early_boot' = ~in_early_boot

early_boot_ended == in_early_boot' = FALSE

\* device_hmac: Err(HardwareNotYetAvailable) without an agreed key.
device_hmac(data) ==
    IF hmac_key = None THEN [ok |-> FALSE, err |-> "HardwareNotYetAvailable", mac |-> <<>>]
    ELSE [ok |-> TRUE, err |-> "Ok", mac |-> HmacSha256(Unwrap(hmac_key), data)]

\* verify_device_hmac: the error of device_hmac, else whether the MACs agree.
verify_device_hmac(data, mac) ==
    LET remac == device_hmac(data)
    IN  IF ~remac.ok THEN [ok |-> FALSE, err |-> remac.err, eq |-> FALSE]
        ELSE [ok |-> TRUE, err |-> "Ok", eq |-> (mac = remac.mac)]

\* The result of send_root_of_trust's checks, in the order of the code:
\* the error code, or "Ok" with the decoded BootInfo.
\* send_root_of_trust without its role check.
send_root_of_trust_check_any_role(msg) ==
    IF ~msg.decodes THEN [err |-> "InvalidArgument", info |-> None]
    ELSE LET v == verify_device_hmac(
                      Mac0Tbm(rot_challenge,
                              IF msg.payload = None THEN <<>> ELSE Unwrap(msg.payload)),
                      msg.tag)
         IN  IF ~v.ok THEN [err |-> v.err, info |-> None]
             ELSE IF ~v.eq THEN [err |-> "VerificationFailed", info |-> None]
             ELSE IF msg.payload = None THEN [err |-> "InvalidArgument", info |-> None]
             ELSE LET b == BootInfo_from_tagged_slice(Unwrap(msg.payload))
                  IN  IF b = None THEN [err |-> "InvalidArgument", info |-> None]
                      ELSE [err |-> "Ok", info |-> b]

\* A plausible slip: the Ok(false) of verify_tag is not turned into
\* VerificationFailed.
send_root_of_trust_check_unverified(msg) ==
    IF ~is_strongbox THEN [err |-> "Unimplemented", info |-> None]
    ELSE IF ~msg.decodes THEN [err |-> "InvalidArgument", info |-> None]
    ELSE LET v == verify_device_hmac(
                      Mac0Tbm(rot_challenge,
                              IF msg.payload = None THEN <<>> ELSE Unwrap(msg.payload)),
                      msg.tag)
         IN  IF ~v.ok THEN [err |-> v.err, info |-> None]
             ELSE IF msg.payload = None THEN [err |-> "InvalidArgument", info |-> None]
             ELSE LET b == BootInfo_from_tagged_slice(Unwrap(msg.payload))
                  IN  IF b = None THEN [err |-> "InvalidArgument", info |-> None]
                      ELSE [err |-> "Ok", info |-> b]

send_root_of_trust_check(msg) ==
    IF ~is_strongbox THEN [err |-> "Unimplemented", info |-> None]
    ELSE IF ~msg.decodes THEN [err |-> "InvalidArgument", info |-> None]
    ELSE LET v == verify_device_hmac(
                      Mac0Tbm(rot_challenge,
                              IF msg.payload = None THEN <<>> ELSE Unwrap(msg.payload)),
                      msg.tag)
         IN  IF ~v.ok THEN [err |-> v.err, info |-> None]
             ELSE IF ~v.eq THEN [err |-> "VerificationFailed", info |-> None]
             ELSE IF msg.payload = None THEN [err |-> "InvalidArgument", info |-> None]
             ELSE LET b == BootInfo_from_tagged_slice(Unwrap(msg.payload))
                  IN  IF b = None THEN [err |-> "InvalidArgument", info |-> None]
                      ELSE [err |-> "Ok", info |-> b]

\* send_root_of_trust latches boot_info only; rot_data is not written.
send_root_of_trust(msg) ==
    LET c == send_root_of_trust_check(msg)
    IN  /\ boot_info' = IF c.err = "Ok" /\ boot_info = None THEN c.info ELSE boot_info
        /\ UNCHANGED rot_data

-----------------------------------------------------------------------------
(* KeyMintTa::process_req: one action per request handled here.            *)
(* `note` records what the request did to the value it targets: "stored"   *)
(* (the target was unset and now holds the request's value), "kept_equal"  *)
(* or "kept_different" (the target was set already, to the request's value *)
(* or to another one), "none" (the request targets no latched value or     *)
(* failed before reaching it).                                             *)

Note(was_set, cur, new) ==
    IF ~was_set THEN "stored"
    ELSE IF cur = new THEN "kept_equal" ELSE "kept_different"

\* PerformOpReq::SetBootInfo with a verified-boot state that try_from
\* rejects: the request fails before set_boot_info.
process_req_SetBootInfoBadState ==
    /\ rsp' = Response("SetBootInfo", "InvalidArgument")
    /\ note' = "none"
    /\ UNCHANGED <<security_level, in_early_boot, boot_info, rot_data,
                   hal_info, hmac_key, rot_challenge>>
    /\ UNCHANGED <<lock_vars, uc_vars, kb_vars, dev_attest_ids, attestation_id_info>>

SetBootInfoBadState == process_req_SetBootInfoBadState /\ UNCHANGED wire

\* PerformOpReq::SetBootInfo carrying BootInfo b.
process_req_SetBootInfo(b) ==
    /\ set_boot_info(b)
    /\ rsp' = Response("SetBootInfo", "Ok")
    /\ note' = Note(boot_info # None, boot_info, Some(b))
    /\ UNCHANGED <<security_level, in_early_boot, hal_info, hmac_key, rot_challenge>>
    /\ UNCHANGED <<lock_vars, uc_vars, kb_vars, dev_attest_ids, attestation_id_info>>

SetBootInfoReq(b) == process_req_SetBootInfo(b) /\ UNCHANGED wire

SetBootInfo == \E b \in BootInfo : SetBootInfoReq(b)

\* PerformOpReq::SetHalInfo carrying HalInfo h.
process_req_SetHalInfo(h) ==
    /\ set_hal_info(h)
    /\ rsp' = Response("SetHalInfo", "Ok")
    /\ note' = Note(hal_info # None, hal_info, Some(h))
    /\ UNCHANGED <<security_level, in_early_boot, boot_info, rot_data,
                   hmac_key, rot_challenge>>
    /\ UNCHANGED <<lock_vars, uc_vars, kb_vars, dev_attest_ids, attestation_id_info>>

SetHalInfoReq(h) == process_req_SetHalInfo(h) /\ UNCHANGED wire

SetHalInfo == \E h \in HalInfo : SetHalInfoReq(h)

\* PerformOpReq::DeviceEarlyBootEnded.
process_req_DeviceEarlyBootEnded ==
    /\ early_boot_ended
    /\ rsp' = Response("DeviceEarlyBootEnded", "Ok")
    /\ note' = Note(~in_early_boot, FALSE, FALSE)
    /\ UNCHANGED <<security_level, boot_info, rot_data, hal_info, hmac_key,
                   rot_challenge>>
    /\ UNCHANGED <<lock_vars, uc_vars, kb_vars, dev_attest_ids, attestation_id_info>>

DeviceEarlyBootEnded == process_req_DeviceEarlyBootEnded /\ UNCHANGED wire

\* PerformOpReq::SharedSecretComputeSharedSecret: the agreed HMAC key is
\* latched on the first successful agreement.
SharedSecretComputeSharedSecret ==
    \E k \in HmacKeys :
        /\ hmac_key' = IF hmac_key = None THEN Some(k) ELSE hmac_key
        /\ rsp' = Response("SharedSecretComputeSharedSecret", "Ok")
        /\ note' = Note(hmac_key # None, hmac_key, Some(k))
        /\ UNCHANGED <<security_level, in_early_boot, boot_info, rot_data,
                       hal_info, rot_challenge>>
        /\ UNCHANGED <<lock_vars, uc_vars, kb_vars, dev_attest_ids, attestation_id_info, wire>>

\* PerformOpReq::GetRootOfTrustChallenge: StrongBox only; the RNG fills
\* rot_challenge with fresh bytes.
GetRootOfTrustChallenge ==
    /\ IF ~is_strongbox
       THEN /\ rsp' = Response("GetRootOfTrustChallenge", "Unimplemented")
            /\ UNCHANGED rot_challenge
       ELSE \E c \in Challenges \ {ZeroChallenge} :
               /\ rot_challenge' = c
               /\ rsp' = Response("GetRootOfTrustChallenge", "Ok")
    /\ note' = "none"
    /\ UNCHANGED <<security_level, in_early_boot, boot_info, rot_data,
                   hal_info, hmac_key>>
    /\ UNCHANGED <<lock_vars, uc_vars, kb_vars, dev_attest_ids, attestation_id_info, wire>>

\* PerformOpReq::GetRootOfTrust: TEE only; reads boot_info and the HMAC key.
GetRootOfTrust ==
    /\ rsp' = Response("GetRootOfTrust",
                       IF is_strongbox THEN "Unimplemented"
                       ELSE IF boot_info = None THEN "HardwareNotYetAvailable"
                       ELSE device_hmac(<<>>).err)
    /\ note' = "none"
    /\ UNCHANGED <<security_level, in_early_boot, boot_info, rot_data,
                   hal_info, hmac_key, rot_challenge>>
    /\ UNCHANGED <<lock_vars, uc_vars, kb_vars, dev_attest_ids, attestation_id_info, wire>>

\* PerformOpReq::SendRootOfTrust carrying the bytes msg.
SendRootOfTrustReq(msg) ==
    /\ send_root_of_trust(msg)
    /\ rsp' = Response("SendRootOfTrust", send_root_of_trust_check(msg).err)
    /\ note' = IF send_root_of_trust_check(msg).err # "Ok" THEN "none"
               ELSE Note(boot_info # None, boot_info, send_root_of_trust_check(msg).info)
    /\ UNCHANGED <<security_level, in_early_boot, hal_info, hmac_key, rot_challenge>>
    /\ UNCHANGED <<lock_vars, uc_vars, kb_vars, dev_attest_ids, attestation_id_info, wire>>

SendRootOfTrust == \E msg \in RotMessages : SendRootOfTrustReq(msg)

-----------------------------------------------------------------------------
(* The TA's specification *)

UcIdle == use_count = <<>> /\ uc_last = <<>> /\ uc_stats = <<>>
KbIdle == sdd_present = FALSE /\ sdd_slots = <<>> /\ drop_log = {}
          /\ kb_issued = {} /\ kb_last = <<>>

Init ==
    /\ \E level \in SecurityLevels : TaNew(level)
    /\ UcIdle
    /\ KbIdle

Next ==
    \/ SetBootInfoBadState
    \/ SetBootInfo
    \/ SetHalInfo
    \/ DeviceEarlyBootEnded
    \/ SharedSecretComputeSharedSecret
    \/ GetRootOfTrustChallenge
    \/ GetRootOfTrust
    \/ SendRootOfTrust

Spec == Init /\ [][Next]_vars

-----------------------------------------------------------------------------
(* Claims about the latched state, checked under Spec *)

\* C1: boot_info is write-once per boot. Once boot_info is set, no step
\* (in particular no later set_boot_info or send_root_of_trust, whatever
\* value it carries) changes boot_info or rot_data.
C1_BootInfoWriteOnce ==
    [][boot_info # None => boot_info' = boot_info /\ rot_data' = rot_data]_vars

\* C1 witness: a SetBootInfo or a verified SendRootOfTrust carrying a value
\* other than the latched one has been processed and answered Ok.
C1_Witness ==
    /\ boot_info # None
    /\ rsp.op \in {"SetBootInfo", "SendRootOfTrust"}
    /\ rsp.error_code = "Ok"
    /\ note = "kept_different"

\* C2 (as claimed): a set_boot_info processed after early_boot_ended, with
\* boot_info still unset, sets neither boot_info nor rot_data.
C2_NoBootInfoAfterEarlyBoot ==
    [][\A b \in BootInfo :
          (~in_early_boot /\ boot_info = None /\ SetBootInfoReq(b))
              => (boot_info' = None /\ rot_data' = rot_data)]_vars

\* C3: hal_info is write-once. The first set_hal_info stores its value,
\* every later one leaves hal_info unchanged, and no other request
\* modifies hal_info.
C3_HalInfoWriteOnce ==
    [][/\ hal_info # None => hal_info' = hal_info
       /\ (hal_info = None /\ rsp'.op = "SetHalInfo") =>
             \A h \in HalInfo : SetHalInfoReq(h) => hal_info' = Some(h)
       /\ hal_info' # hal_info => rsp'.op = "SetHalInfo"]_vars

\* C3 witness: a SetHalInfo carrying a value other than the latched one has
\* been processed.
C3_Witness ==
    /\ hal_info # None
    /\ rsp.op = "SetHalInfo"
    /\ note = "kept_different"

\* C4: in_early_boot is true initially and only ever changes from true to
\* false: once false it stays false, early_boot_ended makes it false and
\* returns Ok, and a repeated early_boot_ended changes no TA state.
C4_EarlyBootMonotone ==
    /\ in_early_boot = TRUE
    /\ [][/\ ~in_early_boot => ~in_early_boot'
          /\ DeviceEarlyBootEnded => (~in_early_boot' /\ rsp'.error_code = "Ok")
          /\ (DeviceEarlyBootEnded /\ ~in_early_boot) =>
                UNCHANGED <<security_level, in_early_boot, boot_info, rot_data,
                            hal_info, hmac_key, rot_challenge>>]_vars

\* C4 witness: early_boot_ended has been processed when early boot had
\* already ended.
C4_Witness ==
    /\ ~in_early_boot
    /\ rsp.op = "DeviceEarlyBootEnded"
    /\ note = "kept_equal"

C20_RoleGating ==
    [][/\ (~is_strongbox /\ rsp'.op \in {"GetRootOfTrustChallenge", "SendRootOfTrust"}) =>
              /\ rsp'.error_code = "Unimplemented"
              /\ UNCHANGED <<rot_challenge, boot_info>>
       /\ (is_strongbox /\ rsp'.op = "GetRootOfTrust") =>
              rsp'.error_code = "Unimplemented"]_vars

\* A TEE that has no HMAC key and no boot_info answers SendRootOfTrust with
\* Unimplemented.
C20_Witness ==
    /\ ~is_strongbox
    /\ rsp.op = "SendRootOfTrust"
    /\ rsp.error_code = "Unimplemented"
    /\ hmac_key = None /\ boot_info = None

-----------------------------------------------------------------------------
(* The use-count table: KeyMintTa::update_use_count *)

\* Maximum number of keys whose use count can be tracked.
MAX_USE_COUNTED_KEYS == 32

\* struct UseCount
UseCount(key_id, count) == [key_id |-> key_id, count |-> count]

\* use_count: Default::default(), every entry None.
UseCountNew == [idx \in 1..MAX_USE_COUNTED_KEYS |-> None]

\* The loop over 0..use_count.len() (here 1..len): free_idx is the first
\* None entry met, slot_idx the first entry holding key_id, where the loop
\* breaks.
RECURSIVE UseCountScan(_, _, _, _)
UseCountScan(tbl, key_id, idx, free_idx) ==
    IF idx > Len(tbl) THEN [free_idx |-> free_idx, slot_idx |-> None]
    ELSE IF tbl[idx] = None
         THEN UseCountScan(tbl, key_id, idx + 1,
                           IF free_idx = None THEN Some(idx) ELSE free_idx)
         ELSE IF Unwrap(tbl[idx]).key_id = key_id
              THEN [free_idx |-> free_idx, slot_idx |-> Some(idx)]
              ELSE UseCountScan(tbl, key_id, idx + 1, free_idx)

\* A plausible slip: the scan stops one entry short of the table's end.
RECURSIVE UseCountScanShort(_, _, _, _)
UseCountScanShort(tbl, key_id, idx, free_idx) ==
    IF idx > Len(tbl) - 1 THEN [free_idx |-> free_idx, slot_idx |-> None]
    ELSE IF tbl[idx] = None
         THEN UseCountScanShort(tbl, key_id, idx + 1,
                                IF free_idx = None THEN Some(idx) ELSE free_idx)
         ELSE IF Unwrap(tbl[idx]).key_id = key_id
              THEN [free_idx |-> free_idx, slot_idx |-> Some(idx)]
              ELSE UseCountScanShort(tbl, key_id, idx + 1, free_idx)

\* The body of update_use_count after the scan `scan`: the table it leaves
\* and the result it returns.
update_use_count_after(tbl, key_id, max_uses, scan) ==
    LET first_use == scan.slot_idx = None /\ scan.free_idx # None
        tbl1 == IF first_use
                THEN [tbl EXCEPT ![Unwrap(scan.free_idx)] = Some(UseCount(key_id, 0))]
                ELSE tbl
        slot_idx == IF first_use THEN scan.free_idx ELSE scan.slot_idx
    IN  IF slot_idx # None
        THEN LET idx == Unwrap(slot_idx)
                 c == Unwrap(tbl1[idx])
             IN  IF c.count >= max_uses
                 THEN [use_count |-> tbl1, result |-> "KeyMaxOpsExceeded"]
                 ELSE [use_count |-> [tbl1 EXCEPT ![idx] = Some(UseCount(c.key_id, c.count + 1))],
                       result |-> "Ok"]
        ELSE [use_count |-> tbl1, result |-> "TooManyOperations"]

\* A plausible slip: `>` where the code has `>=`.
update_use_count_off_by_one(tbl, key_id, max_uses) ==
    update_use_count_after(tbl, key_id, max_uses + 1, UseCountScan(tbl, key_id, 1, None))

\* A plausible slip: the last entry of the table is never looked at.
update_use_count_short(tbl, key_id, max_uses) ==
    update_use_count_after(tbl, key_id, max_uses, UseCountScanShort(tbl, key_id, 1, None))

\* A plausible slip: an entry whose count has reached the limit is given
\* back to the table.
update_use_count_frees(tbl, key_id, max_uses) ==
    LET r == update_use_count_after(tbl, key_id, max_uses, UseCountScan(tbl, key_id, 1, None))
    IN  IF r.result = "KeyMaxOpsExceeded"
        THEN [use_count |-> [idx \in 1..Len(tbl) |->
                                IF r.use_count[idx] # None /\ Unwrap(r.use_count[idx]).key_id = key_id
                                THEN None ELSE r.use_count[idx]],
              result |-> r.result]
        ELSE r

\* update_use_count(key_id, max_uses) on table tbl.
update_use_count(tbl, key_id, max_uses) ==
    update_use_count_after(tbl, key_id, max_uses, UseCountScan(tbl, key_id, 1, None))

-----------------------------------------------------------------------------
(* The use-count specification: sequences of update_use_count calls *)

\* Key IDs are opaque 32-byte tags; one more than the table can hold.
KeyIds == 1..(MAX_USE_COUNTED_KEYS + 1)
MaxUsesValues == 0..MaxUses

Tracked(tbl, key_id) == \E idx \in 1..Len(tbl) : tbl[idx] # None /\ Unwrap(tbl[idx]).key_id = key_id
TableFull(tbl) == \A idx \in 1..Len(tbl) : tbl[idx] # None
TrackedIds(tbl) == {Unwrap(tbl[idx]).key_id : idx \in {i \in 1..Len(tbl) : tbl[i] # None}}
CountOf(tbl, key_id) ==
    LET idx == CHOOSE i \in 1..Len(tbl) : tbl[i] # None /\ Unwrap(tbl[i]).key_id = key_id
    IN  Unwrap(tbl[idx]).count

\* What the calls made so far for a reused key ID asked for and returned:
\* limit is -1 before the first call, the max_uses of all calls so far while
\* they agree, and -2 once two calls carried different max_uses (after which
\* nothing more is recorded).
NoCalls == [limit |-> -1, calls |-> 0, oks |-> 0, late_ok |-> FALSE]
MixedCalls == [limit |-> -2, calls |-> 0, oks |-> 0, late_ok |-> FALSE]
RecordCall(st, max_uses, result) ==
    IF st.limit = -2 \/ (st.limit >= 0 /\ st.limit # max_uses) THEN MixedCalls
    ELSE [limit |-> max_uses, calls |-> st.calls + 1,
          oks |-> st.oks + (IF result = "Ok" THEN 1 ELSE 0),
          late_ok |-> st.late_ok \/ (result = "Ok" /\ st.oks < st.calls)]

\* Which calls the model makes. Key IDs are interchangeable, so the next
\* key ID not yet tracked is always the smallest one (the number of occupied
\* entries plus one); key IDs up to ReusedKeys are called again at will,
\* with any max_uses; the other key IDs are called once, with a max_uses of
\* at least 1 (the ID beyond the table's capacity with any max_uses, again
\* and again).
NextFresh(tbl) == Cardinality({idx \in 1..Len(tbl) : tbl[idx] # None}) + 1
CallMade(key_id, max_uses) ==
    \/ /\ key_id <= ReusedKeys
       /\ key_id < NextFresh(use_count)
       /\ uc_stats[key_id].calls < MaxCalls
    \/ /\ key_id = NextFresh(use_count)
       /\ key_id <= ReusedKeys \/ max_uses >= 1 \/ key_id > MAX_USE_COUNTED_KEYS

\* One call of update_use_count(key_id, max_uses).
UpdateUseCountReq(key_id, max_uses) ==
    /\ CallMade(key_id, max_uses)
    /\ LET r == update_use_count(use_count, key_id, max_uses)
       IN  /\ use_count' = r.use_count
           /\ uc_last' = [key_id |-> key_id, max_uses |-> max_uses, result |-> r.result]
           /\ uc_stats' = IF key_id <= ReusedKeys
                          THEN [uc_stats EXCEPT ![key_id] = RecordCall(@, max_uses, r.result)]
                          ELSE uc_stats
    /\ UNCHANGED <<ta_vars, kb_vars, wire>>

UpdateUseCount ==
    \E key_id \in (1..ReusedKeys) \cup {NextFresh(use_count)}, max_uses \in MaxUsesValues :
        UpdateUseCountReq(key_id, max_uses)

TaIdle == \E level \in {"TrustedEnvironment"} : TaNew(level)

InitUseCount ==
    /\ TaIdle
    /\ KbIdle
    /\ use_count = UseCountNew
    /\ uc_last = [key_id |-> 0, max_uses |-> 0, result |-> "none"]
    /\ uc_stats = [k \in 1..ReusedKeys |-> NoCalls]

NextUseCount == UpdateUseCount

SpecUseCount == InitUseCount /\ [][NextUseCount]_vars

-----------------------------------------------------------------------------
(* Claims about the use-count table, checked under SpecUseCount *)

Min(a, b) == IF a <= b THEN a ELSE b

\* C5: for a key ID used with limit n throughout, while the table has a slot
\* for it, exactly the first n calls return Ok and every later call returns
\* KeyMaxOpsExceeded, and the stored count never exceeds n.
C5_UseCountLimit ==
    \A k \in 1..ReusedKeys :
        (uc_stats[k].limit >= 0 /\ Tracked(use_count, k)) =>
            /\ uc_stats[k].oks = Min(uc_stats[k].calls, uc_stats[k].limit)
            /\ ~uc_stats[k].late_ok
            /\ CountOf(use_count, k) = uc_stats[k].oks
            /\ CountOf(use_count, k) <= uc_stats[k].limit
            /\ (uc_last.key_id = k /\ uc_stats[k].calls > uc_stats[k].limit)
                   => uc_last.result = "KeyMaxOpsExceeded"

\* C5 witness: a key ID used with limit 2 throughout has been used a third
\* time, which returned KeyMaxOpsExceeded.
C5_Witness ==
    \E k \in 1..ReusedKeys :
        /\ uc_stats[k].limit = 2
        /\ uc_stats[k].calls = 3
        /\ uc_last.key_id = k
        /\ uc_last.result = "KeyMaxOpsExceeded"

\* C6 (uc_last' holds the key ID and the max_uses of the call that made the
\* step): a call for a tracked key ID works on its entry alone and never fails
\* with TooManyOperations; a call for an untracked key ID takes the
\* lowest-index free entry; with no free entry it fails with
\* TooManyOperations and leaves the table alone. A full table stays full, so
\* a 33rd key ID is refused for the rest of the boot while the 32 tracked
\* ones are still counted.
C6_UseCountAllocation ==
    [][/\ TableFull(use_count) => TableFull(use_count') /\ TrackedIds(use_count') = TrackedIds(use_count)
       /\ uc_last'.result # "none" =>
              LET key_id == uc_last'.key_id
                  max_uses == uc_last'.max_uses
                  idxs == 1..MAX_USE_COUNTED_KEYS
                  free == {i \in idxs : use_count[i] = None}
                  held == {i \in idxs : use_count[i] # None /\ Unwrap(use_count[i]).key_id = key_id}
              IN  /\ held # {} =>
                        /\ uc_last'.result \in {"Ok", "KeyMaxOpsExceeded"}
                        /\ \A i \in idxs \ held : use_count'[i] = use_count[i]
                        /\ \A i \in held :
                              use_count'[i] = Some(UseCount(key_id,
                                  Unwrap(use_count[i]).count +
                                      (IF Unwrap(use_count[i]).count < max_uses THEN 1 ELSE 0)))
                        /\ uc_last'.result = "Ok" <=> CountOf(use_count', key_id) > CountOf(use_count, key_id)
                  /\ (held = {} /\ free # {}) =>
                        /\ uc_last'.result \in {"Ok", "KeyMaxOpsExceeded"}
                        /\ \A i \in free : (\A j \in free : i <= j) =>
                              /\ use_count'[i] = Some(UseCount(key_id, IF max_uses > 0 THEN 1 ELSE 0))
                              /\ \A m \in idxs \ {i} : use_count'[m] = use_count[m]
                  /\ (held = {} /\ free = {}) =>
                        /\ uc_last'.result = "TooManyOperations"
                        /\ use_count' = use_count]_vars

\* C6 witness: all 32 entries are taken by 32 distinct key IDs and a call
\* for a 33rd key ID has been refused with TooManyOperations.
C6_Witness ==
    /\ TableFull(use_count)
    /\ Cardinality(TrackedIds(use_count)) = MAX_USE_COUNTED_KEYS
    /\ uc_last.key_id = MAX_USE_COUNTED_KEYS + 1
    /\ uc_last.result = "TooManyOperations"

-----------------------------------------------------------------------------
(* Keyblobs: values (common/src/keyblob.rs) *)

\* KeyParam values that matter to sealing.
RollbackResistance == <<"RollbackResistance">>
UsageCountLimit(n) == <<"UsageCountLimit", n>>
Purpose(p) == <<"Purpose", p>>
ApplicationId(d) == <<"ApplicationId", d>>

\* KeyCharacteristics: a security level with its authorizations.
KeyCharacteristics(level, auths) == [security_level |-> level, authorizations |-> auths]

\* crypto::PlaintextKeyMaterial values.
KeyMaterials == {[alg |-> "Aes", key |-> 15], [alg |-> "Hmac", key |-> 7]}

\* PlaintextKeyBlob
PlaintextKeyBlob(chars, km) == [characteristics |-> chars, key_material |-> km]

\* The plaintext keyblobs sealed here: without any parameter that asks for
\* secure deletion; with RollbackResistance; with UsageCountLimit(1) at
\* another security level than the first entry's; with a usage count limit
\* other than 1.
PlaintextKeyBlobs ==
    {PlaintextKeyBlob(<<KeyCharacteristics("TrustedEnvironment", <<Purpose("Encrypt")>>)>>,
                      [alg |-> "Aes", key |-> 15]),
     PlaintextKeyBlob(<<KeyCharacteristics("TrustedEnvironment",
                                           <<Purpose("Sign"), RollbackResistance>>)>>,
                      [alg |-> "Hmac", key |-> 7]),
     PlaintextKeyBlob(<<KeyCharacteristics("TrustedEnvironment", <<Purpose("Encrypt")>>),
                        KeyCharacteristics("Keystore", <<UsageCountLimit(1)>>)>>,
                      [alg |-> "Aes", key |-> 15]),
     PlaintextKeyBlob(<<KeyCharacteristics("TrustedEnvironment",
                                           <<UsageCountLimit(MaxUses), Purpose("Sign")>>)>>,
                      [alg |-> "Hmac", key |-> 7])}

\* The hidden parameters of a caller.
Hiddens == {<<>>, <<ApplicationId(1)>>}
\* Root keys: the device's, and another one.
RootKeys == {1, 2}
\* The root key and hidden parameters keyblobs are sealed with.
SealContexts == {[root_key |-> 1, hidden |-> <<>>],
                 [root_key |-> 2, hidden |-> <<ApplicationId(1)>>]}
\* SecureDeletionSlot numbers of the manager.
SlotIds == {1, 2}

\* SecureDeletionData: the factory-reset secret of the device and the
\* per-key secret, the n-th fresh one the manager has generated.
FactoryResetSecret == <<"factory_reset_secret">>
SecureDeletionData(n) ==
    [factory_reset_secret |-> FactoryResetSecret, secure_deletion_secret |-> n]

\* CBOR serialization (into_vec) of a structured value, and the error codes
\* of the collaborators.
Cbor(x) == <<"cbor", x>>
KeyMaterial_into_vec(km) == <<"cbor-key-material", km.alg, km.key>>
KeyMaterial_from_slice(data) ==
    IF Len(data) = 3 /\ data[1] = "cbor-key-material"
    THEN Some([alg |-> data[2], key |-> data[3]])
    ELSE None

\* crypto::hkdf::<32>(hmac, salt, ikm, info)
Hkdf(salt, ikm, info) == <<"hkdf-sha256", salt, ikm, info>>

\* Nonce value of all zeroes used in AES-GCM key encryption.
ZERO_NONCE == <<0, 0, 0, 0, 0, 0, 0, 0, 0, 0, 0, 0>>

\* AES-GCM with a 16-byte tag: ciphertext and tag of pt under (key, nonce,
\* aad); decryption returns the plaintext exactly when key, nonce and aad
\* are those of the encryption.
AesGcmEncrypt(key, nonce, aad, pt) == <<"aes-gcm-tag16", key, nonce, aad, pt>>
AesGcmDecrypt(key, nonce, aad, ct) ==
    IF Len(ct) = 5 /\ ct[1] = "aes-gcm-tag16" /\ ct[2] = key /\ ct[3] = nonce /\ ct[4] = aad
    THEN Some(ct[5])
    ELSE None

\* coset::enc_structure_data(CoseEncrypt0, protected, external_aad)
enc_structure_data(protected, external_aad) == <<"Encrypt0", protected, external_aad>>
\* The protected header built by encrypt.
ProtectedA256GCM == <<"alg", "A256GCM">>

\* EncryptedKeyBlob::V1
EncryptedKeyBlobV1(chars, kdi, cose_encrypt, slot) ==
    [version |-> "V1", characteristics |-> chars, key_derivation_input |-> kdi,
     encrypted_key_material |-> cose_encrypt, secure_deletion_slot |-> slot]

-----------------------------------------------------------------------------
(* derive_kek *)

\* info = key_derivation_input, then the encoded characteristics, then the
\* encoded hidden parameters, then (if given) the encoded SecureDeletionData.
derive_kek_without_hidden(root_key, key_derivation_input, characteristics, hidden, sdd) ==
    LET info0 == <<key_derivation_input>>
        info1 == info0 \o <<Cbor(characteristics)>>
        info3 == IF sdd # None THEN info1 \o <<Cbor(Unwrap(sdd))>> ELSE info1
    IN  <<"Aes256", Hkdf(<<>>, root_key, info3)>>

\* The same with the hidden parameters ahead of the characteristics.
derive_kek_hidden_first(root_key, key_derivation_input, characteristics, hidden, sdd) ==
    LET info0 == <<key_derivation_input>>
        info1 == info0 \o <<Cbor(hidden)>>
        info2 == info1 \o <<Cbor(characteristics)>>
        info3 == IF sdd # None THEN info2 \o <<Cbor(Unwrap(sdd))>> ELSE info2
    IN  <<"Aes256", Hkdf(<<>>, root_key, info3)>>

derive_kek(root_key, key_derivation_input, characteristics, hidden, sdd) ==
    LET info0 == <<key_derivation_input>>
        info1 == info0 \o <<Cbor(characteristics)>>
        info2 == info1 \o <<Cbor(hidden)>>
        info3 == IF sdd # None THEN info2 \o <<Cbor(Unwrap(sdd))>> ELSE info2
    IN  <<"Aes256", Hkdf(<<>>, root_key, info3)>>

-----------------------------------------------------------------------------
(* SecureDeletionSecretManager and SlotHolder *)

FreeSlots(slots) == {sl \in SlotIds : slots[sl] = None}

\* SecureDeletionSecretManager::get_secret(slot)
get_secret(slots, slot, fails) ==
    IF fails \/ slot \notin SlotIds \/ slots[slot] = None
    THEN [result |-> "GetSecretFailed", sdd |-> None]
    ELSE [result |-> "Ok", sdd |-> slots[slot]]

\* SecureDeletionSecretManager::delete_secret(slot): on success the slot is
\* empty; a failing delete leaves the slot as it was.
delete_secret(slots, slot, fails) ==
    IF fails THEN [slots |-> slots, result |-> "DeleteSecretFailed"]
    ELSE [slots |-> [slots EXCEPT ![slot] = None], result |-> "Ok"]

\* Drop for SlotHolder: delete the slot if the holder still has one; a
\* failure of delete_secret is logged and goes no further. `trace` lists the
\* manager calls made, `log` the slots named in the error log.
SlotHolder_drop_nothing(holder, slots, delete_fails) ==
    [slots |-> slots, trace |-> <<>>, log |-> {}]

SlotHolder_drop_retry(holder, slots, delete_fails) ==
    IF holder # None
    THEN LET slot == Unwrap(holder)
             deleted == delete_secret(slots, slot, delete_fails)
             again == delete_secret(deleted.slots, slot, delete_fails)
         IN  IF deleted.result # "Ok"
             THEN [slots |-> again.slots,
                   trace |-> <<<<"delete_secret", slot>>, <<"delete_secret", slot>>>>,
                   log |-> IF again.result # "Ok" THEN {slot} ELSE {}]
             ELSE [slots |-> deleted.slots, trace |-> <<<<"delete_secret", slot>>>>,
                   log |-> {}]
    ELSE [slots |-> slots, trace |-> <<>>, log |-> {}]

SlotHolder_drop(holder, slots, delete_fails) ==
    IF holder # None
    THEN LET slot == Unwrap(holder)
             deleted == delete_secret(slots, slot, delete_fails)
         IN  [slots |-> deleted.slots, trace |-> <<<<"delete_secret", slot>>>>,
              log |-> IF deleted.result # "Ok" THEN {slot} ELSE {}]
    ELSE [slots |-> slots, trace |-> <<>>, log |-> {}]

-----------------------------------------------------------------------------
(* encrypt *)

\* Whether secure deletion is required: any authorization, at any security
\* level, that is RollbackResistance or UsageCountLimit(1).
requires_sdd_any_limit(characteristics) ==
    \E i \in 1..Len(characteristics) :
        \E j \in 1..Len(characteristics[i].authorizations) :
            LET param == characteristics[i].authorizations[j]
            IN  param = RollbackResistance \/ param[1] = "UsageCountLimit"

requires_sdd(characteristics) ==
    \E i \in 1..Len(characteristics) :
        \E j \in 1..Len(characteristics[i].authorizations) :
            LET param == characteristics[i].authorizations[j]
            IN  param = RollbackResistance \/ param = UsageCountLimit(1)

\* What the collaborators do during one call of encrypt: which of them
\* fails, if any; whether delete_secret fails; the free slot new_secret
\* picks and the secret it generates; the bytes the RNG gives.
EncryptFaults == {"none", "new_secret", "derive_kek", "into_vec", "aead"}
Env(fault, delete_fails, slot, secret, kdi) ==
    [fault |-> fault, delete_fails |-> delete_fails, slot |-> slot, secret |-> secret,
     kdi |-> kdi]

\* The return of encrypt with an error from a point where slot_holder is
\* alive: the holder is dropped on the way out.
encrypt_fail(err, holder, slots, env, trace) ==
    LET dropped == SlotHolder_drop(holder, slots, env.delete_fails)
    IN  [result |-> err, keyblob |-> None, slots |-> dropped.slots, reserved |-> holder,
         trace |-> trace \o dropped.trace, log |-> dropped.log]

\* encrypt(sdd_mgr, aes, hmac, rng, root_key, plaintext_keyblob, hidden):
\* `present` and `slots` are the manager. The result carries the error code
\* or "Ok", the keyblob, the manager's slots afterwards, the slot reserved
\* by new_secret (if it succeeded), the collaborator calls made, in order,
\* and what was logged.
encrypt(present, slots, root_key, plaintext_keyblob, hidden, env) ==
    LET need == requires_sdd(plaintext_keyblob.characteristics)
    IN  IF need /\ ~present
        THEN [result |-> "RollbackResistanceUnavailable", keyblob |-> None, slots |-> slots,
              reserved |-> None, trace |-> <<>>, log |-> {}]
        ELSE IF need /\ (env.fault = "new_secret" \/ env.slot \notin FreeSlots(slots))
        THEN [result |-> "NewSecretFailed", keyblob |-> None, slots |-> slots,
              reserved |-> None, trace |-> <<<<"new_secret", 0>>>>, log |-> {}]
        ELSE
        LET slot_holder == IF need THEN Some(env.slot) ELSE None
            sdd == IF need THEN Some(SecureDeletionData(env.secret)) ELSE None
            slots1 == IF need THEN [slots EXCEPT ![env.slot] = sdd] ELSE slots
            trace1 == IF need THEN <<<<"new_secret", env.slot>>>> ELSE <<>>
            characteristics == plaintext_keyblob.characteristics
            key_derivation_input == env.kdi
            trace2 == trace1 \o <<<<"fill_bytes", env.kdi>>>>
            kek == derive_kek(root_key, key_derivation_input, characteristics, hidden, sdd)
            trace3 == trace2 \o <<<<"derive_kek", 0>>>>
            pt == KeyMaterial_into_vec(plaintext_keyblob.key_material)
            aad == enc_structure_data(ProtectedA256GCM, <<>>)
            trace4 == trace3 \o <<<<"begin_aead", 0>>>>
            cose_encrypt == [protected |-> ProtectedA256GCM,
                             ciphertext |-> Some(AesGcmEncrypt(kek, ZERO_NONCE, aad, pt))]
        IN  IF env.fault = "derive_kek"
            THEN encrypt_fail("HkdfFailed", slot_holder, slots1, env, trace3)
            ELSE IF env.fault = "into_vec"
            THEN encrypt_fail("EncodeFailed", slot_holder, slots1, env, trace3)
            ELSE IF env.fault = "aead"
            THEN encrypt_fail("AesFailed", slot_holder, slots1, env, trace4)
            ELSE [result |-> "Ok",
                  keyblob |-> Some(EncryptedKeyBlobV1(characteristics, key_derivation_input,
                                                      cose_encrypt, slot_holder)),
                  slots |-> slots1, reserved |-> slot_holder, trace |-> trace4, log |-> {}]

-----------------------------------------------------------------------------
(* decrypt *)

\* The collaborator failure a decrypt call can meet: get_secret failing for
\* a slot the manager holds. (A wrong key, nonce or aad makes the AEAD fail
\* by itself.)
DecryptFaults == {"none", "get_secret"}

\* The error of the AEAD operation when the tag does not verify.
AeadTagMismatch == "InvalidKeyBlob"

\* The end of decrypt, from the AEAD operation on: `trace` holds the
\* collaborator calls made before it.
decrypt_open(kek, encrypted_keyblob, trace) ==
    LET characteristics == encrypted_keyblob.characteristics
        cose_encrypt == encrypted_keyblob.encrypted_key_material
        extended_aad == enc_structure_data(cose_encrypt.protected, <<>>)
        ct == IF cose_encrypt.ciphertext # None THEN Unwrap(cose_encrypt.ciphertext) ELSE <<>>
        pt_data == AesGcmDecrypt(kek, ZERO_NONCE, extended_aad, ct)
        key_material == IF pt_data # None THEN KeyMaterial_from_slice(Unwrap(pt_data))
                        ELSE None
        trace1 == trace \o <<<<"begin_aead", 0>>>>
    IN  IF pt_data = None THEN [result |-> AeadTagMismatch, out |-> None, trace |-> trace1]
        ELSE IF key_material = None
        THEN [result |-> "DecodeFailed", out |-> None, trace |-> trace1]
        ELSE [result |-> "Ok",
              out |-> Some(PlaintextKeyBlob(characteristics, Unwrap(key_material))),
              trace |-> trace1]

\* decrypt(sdd_mgr, aes, hmac, root_key, encrypted_keyblob, hidden): the
\* result carries the error code or "Ok", the PlaintextKeyBlob and the
\* collaborator calls made, in order.
decrypt_without_sdd(present, slots, root_key, encrypted_keyblob, hidden, fault) ==
    LET kek == derive_kek(root_key, encrypted_keyblob.key_derivation_input,
                          encrypted_keyblob.characteristics, hidden, None)
    IN  decrypt_open(kek, encrypted_keyblob, <<<<"derive_kek", 0>>>>)

decrypt(present, slots, root_key, encrypted_keyblob, hidden, fault) ==
    LET slot == encrypted_keyblob.secure_deletion_slot
        got == IF slot # None THEN get_secret(slots, Unwrap(slot), fault = "get_secret")
               ELSE [result |-> "Ok", sdd |-> None]
        sdd == got.sdd
        trace1 == IF slot # None THEN <<<<"get_secret", Unwrap(slot)>>>> ELSE <<>>
        kek == derive_kek(root_key, encrypted_keyblob.key_derivation_input,
                          encrypted_keyblob.characteristics, hidden, sdd)
        trace2 == trace1 \o <<<<"derive_kek", 0>>>>
    IN  IF slot # None /\ ~present
        THEN [result |-> "InvalidKeyBlob", out |-> None, trace |-> <<>>]
        ELSE IF got.result # "Ok"
        THEN [result |-> got.result, out |-> None, trace |-> trace1]
        ELSE decrypt_open(kek, encrypted_keyblob, trace2)

-----------------------------------------------------------------------------
(* Sealing and unsealing keyblobs against one manager *)

\* The secrets held by the manager or bound into a returned keyblob.
SecretsInUse ==
    {Unwrap(sdd_slots[sl]).secure_deletion_secret : sl \in SlotIds \ FreeSlots(sdd_slots)}
    \cup {Unwrap(e.sdd).secure_deletion_secret : e \in {i \in kb_issued : i.sdd # None}}

\* The first positive number outside `used`.
FirstUnused(used) ==
    CHOOSE n \in 1..(Cardinality(used) + 1) :
        n \notin used /\ \A m \in 1..(n - 1) : m \in used

\* new_secret generates a secret that is in use nowhere, and the RNG gives
\* key_derivation_input bytes that no returned keyblob carries.
NextSecret == FirstUnused(SecretsInUse)
NextKdi == FirstUnused({e.keyblob.key_derivation_input : e \in kb_issued})

\* Whether `trace` has a call of the collaborator `name`.
Called(trace, name) == \E i \in 1..Len(trace) : trace[i][1] = name

\* The collaborators' behaviour during one encrypt call; slot 0 stands for
\* new_secret giving no slot.
EncryptEnvs ==
    {Env(fault, delete_fails, slot, NextSecret, NextKdi) :
        fault \in EncryptFaults, delete_fails \in BOOLEAN,
        slot \in FreeSlots(sdd_slots) \cup {0}}

\* The behaviour in env is one the call can meet: a collaborator that is
\* not called does not fail, and new_secret gives a slot unless it fails or
\* the manager is full.
EnvHappens(env, r) ==
    /\ env.delete_fails => Called(r.trace, "delete_secret")
    /\ env.fault # "none" => r.result # "Ok"
    /\ env.fault = "new_secret" => r.result = "NewSecretFailed"
    /\ env.slot # 0 => r.reserved = Some(env.slot)
    /\ (env.slot = 0 /\ Called(r.trace, "new_secret"))
           => (env.fault = "new_secret" \/ FreeSlots(sdd_slots) = {})

EncryptReq(root_key, plaintext_keyblob, hidden, env) ==
    LET r == encrypt(sdd_present, sdd_slots, root_key, plaintext_keyblob, hidden, env)
    IN  /\ Cardinality(kb_issued) < MaxIssued
        /\ EnvHappens(env, r)
        /\ sdd_slots' = r.slots
        /\ drop_log' = drop_log \cup r.log
        /\ kb_issued' =
               IF r.result = "Ok"
               THEN kb_issued \cup
                    {[keyblob |-> Unwrap(r.keyblob), plaintext |-> plaintext_keyblob,
                      hidden |-> hidden, root_key |-> root_key,
                      sdd |-> IF r.reserved # None THEN r.slots[Unwrap(r.reserved)]
                              ELSE None]}
               ELSE kb_issued
        /\ kb_last' = [op |-> "encrypt", plaintext |-> plaintext_keyblob, hidden |-> hidden,
                       root_key |-> root_key, fault |-> env.fault,
                       delete_fails |-> env.delete_fails, result |-> r.result,
                       keyblob |-> r.keyblob, reserved |-> r.reserved, trace |-> r.trace]
        /\ UNCHANGED <<sdd_present, ta_vars, uc_vars, wire>>

Encrypt ==
    \E ctx \in SealContexts, plaintext_keyblob \in PlaintextKeyBlobs :
        \E env \in EncryptEnvs :
            EncryptReq(ctx.root_key, plaintext_keyblob, ctx.hidden, env)

DecryptReq(issued, root_key, hidden, fault) ==
    LET r == decrypt(sdd_present, sdd_slots, root_key, issued.keyblob, hidden, fault)
    IN  /\ fault = "get_secret" => Called(r.trace, "get_secret")
        /\ kb_last' = [op |-> "decrypt", issued |-> issued, hidden |-> hidden,
                       root_key |-> root_key, fault |-> fault, result |-> r.result,
                       out |-> r.out, trace |-> r.trace]
        /\ UNCHANGED <<sdd_present, sdd_slots, drop_log, kb_issued, ta_vars, uc_vars, wire>>

Decrypt ==
    \E issued \in kb_issued, root_key \in RootKeys, hidden \in Hiddens :
        \E fault \in DecryptFaults : DecryptReq(issued, root_key, hidden, fault)

InitKeyblob ==
    /\ TaIdle
    /\ UcIdle
    /\ sdd_present \in BOOLEAN
    /\ sdd_slots = [sl \in SlotIds |-> None]
    /\ drop_log = {}
    /\ kb_issued = {}
    /\ kb_last = [op |-> "none"]

NextKeyblob == Encrypt \/ Decrypt

SpecKeyblob == InitKeyblob /\ [][NextKeyblob]_vars

-----------------------------------------------------------------------------
(* The life of a keyblob: sealing, unsealing (also of altered keyblobs), *)
(* delete_key and delete_all_keys                                        *)

\* A keyblob that differs from a returned one in one field.
Alterations == {"characteristics", "key_derivation_input", "ciphertext", "slot"}
AlterKeyblob(keyblob, how) ==
    CASE how = "characteristics" ->
             [keyblob EXCEPT !.characteristics =
                  Append(@, KeyCharacteristics("Software", <<Purpose("Verify")>>))]
      [] how = "key_derivation_input" ->
             [keyblob EXCEPT !.key_derivation_input = @ + 1]
      [] how = "ciphertext" ->
             [keyblob EXCEPT !.encrypted_key_material.ciphertext =
                  Some(Append(Unwrap(@), "flipped"))]
      [] how = "slot" ->
             [keyblob EXCEPT !.secure_deletion_slot =
                  IF @ = None THEN Some(CHOOSE sl \in SlotIds : \A o \in SlotIds : sl <= o)
                  ELSE None]
      [] OTHER -> keyblob

\* decrypt of an altered keyblob, with the root key and the hidden parameters
\* the original was sealed with.
DecryptAlteredReq(issued, how, fault) ==
    LET keyblob == AlterKeyblob(issued.keyblob, how)
        r == decrypt(sdd_present, sdd_slots, issued.root_key, keyblob, issued.hidden, fault)
    IN  /\ fault = "get_secret" => Called(r.trace, "get_secret")
        /\ kb_last' = [op |-> "decrypt_altered", issued |-> issued, how |-> how,
                       keyblob |-> keyblob, fault |-> fault, result |-> r.result,
                       out |-> r.out, trace |-> r.trace]
        /\ UNCHANGED <<sdd_present, sdd_slots, drop_log, kb_issued, ta_vars, uc_vars, wire>>

DecryptAltered ==
    \E issued \in kb_issued, how \in Alterations :
        \E fault \in DecryptFaults : DecryptAlteredReq(issued, how, fault)

\* SecureDeletionSecretManager::delete_all
delete_all(slots) == [sl \in SlotIds |-> None]

\* KeyMintTa::delete_key(keyblob): `parsed` is the keyblob EncryptedKeyBlob::new
\* gives, None if the bytes do not parse. A failure of delete_secret is
\* logged; the result is Ok in every case.
delete_key_keeps_secret(present, slots, parsed, delete_fails) ==
    [result |-> "Ok", slots |-> slots, trace |-> <<>>]

delete_key(present, slots, parsed, delete_fails) ==
    IF parsed # None /\ present /\ Unwrap(parsed).secure_deletion_slot # None
    THEN LET slot == Unwrap(Unwrap(parsed).secure_deletion_slot)
         IN  [result |-> "Ok", slots |-> delete_secret(slots, slot, delete_fails).slots,
              trace |-> <<<<"delete_secret", slot>>>>]
    ELSE [result |-> "Ok", slots |-> slots, trace |-> <<>>]

\* KeyMintTa::delete_all_keys()
delete_all_keys(present, slots) ==
    IF present THEN [result |-> "Ok", slots |-> delete_all(slots), trace |-> <<<<"delete_all", 0>>>>]
    ELSE [result |-> "Ok", slots |-> slots, trace |-> <<>>]

\* PerformOpReq::DeviceDeleteKey
DeleteKeyReq(parsed, delete_fails) ==
    LET r == delete_key(sdd_present, sdd_slots, parsed, delete_fails)
    IN  /\ delete_fails => Called(r.trace, "delete_secret")
        /\ sdd_slots' = r.slots
        /\ kb_last' = [op |-> "delete_key", keyblob |-> parsed, delete_fails |-> delete_fails,
                       result |-> r.result, trace |-> r.trace]
        /\ UNCHANGED <<sdd_present, drop_log, kb_issued, ta_vars, uc_vars, wire>>

\* PerformOpReq::DeviceDeleteAllKeys
DeleteAllKeysReq ==
    LET r == delete_all_keys(sdd_present, sdd_slots)
    IN  /\ sdd_slots' = r.slots
        /\ kb_last' = [op |-> "delete_all_keys", result |-> r.result, trace |-> r.trace]
        /\ UNCHANGED <<sdd_present, drop_log, kb_issued, ta_vars, uc_vars, wire>>

\* decrypt borrows the manager immutably and changes nothing: whatever can
\* follow a decrypt can follow the call before it, so a run is not continued
\* past a decrypt.
NotAfterDecrypt == kb_last.op \notin {"decrypt", "decrypt_altered"}

\* encrypt with every collaborator succeeding.
Seal ==
    /\ NotAfterDecrypt
    /\ \E ctx \in SealContexts, plaintext_keyblob \in PlaintextKeyBlobs :
           \E env \in {e \in EncryptEnvs : e.fault = "none" /\ ~e.delete_fails} :
               EncryptReq(ctx.root_key, plaintext_keyblob, ctx.hidden, env)

Unseal == NotAfterDecrypt /\ Decrypt

UnsealAltered == NotAfterDecrypt /\ DecryptAltered

DeviceDeleteKey ==
    /\ NotAfterDecrypt
    /\ \/ \E issued \in kb_issued, delete_fails \in BOOLEAN :
              DeleteKeyReq(Some(issued.keyblob), delete_fails)
       \/ DeleteKeyReq(None, FALSE)

DeviceDeleteAllKeys == NotAfterDecrypt /\ DeleteAllKeysReq

NextLifecycle ==
    \/ Seal
    \/ Unseal
    \/ UnsealAltered
    \/ DeviceDeleteKey
    \/ DeviceDeleteAllKeys

SpecLifecycle == InitKeyblob /\ [][NextLifecycle]_vars

-----------------------------------------------------------------------------
(* Claims about sealing, under SpecKeyblob *)

\* How often `trace` has the call <<name, arg>>.
RECURSIVE Calls(_, _, _)
Calls(trace, name, arg) ==
    IF trace = <<>> THEN 0
    ELSE (IF Head(trace) = <<name, arg>> THEN 1 ELSE 0) + Calls(Tail(trace), name, arg)

\* The slots embedded in the keyblobs encrypt has returned.
EmbeddedSlots ==
    {Unwrap(e.keyblob.secure_deletion_slot) :
        e \in {i \in kb_issued : i.keyblob.secure_deletion_slot # None}}

\* On return from an encrypt that reserved a slot: success with exactly that
\* slot in the keyblob and no delete_secret for it, or failure with
\* delete_secret called for it.
ReservedSlotSettled ==
    (kb_last.op = "encrypt" /\ kb_last.reserved # None) =>
        LET slot == Unwrap(kb_last.reserved)
        IN  \/ /\ kb_last.result = "Ok"
               /\ kb_last.keyblob # None
               /\ Unwrap(kb_last.keyblob).secure_deletion_slot = Some(slot)
               /\ Calls(kb_last.trace, "delete_secret", slot) = 0
            \/ /\ kb_last.result # "Ok"
               /\ kb_last.keyblob = None
               /\ Calls(kb_last.trace, "delete_secret", slot) >= 1
               /\ kb_last.trace[Len(kb_last.trace)] = <<"delete_secret", slot>>

\* C7 as stated: an encrypt that reserved a slot returns it in the keyblob
\* (without deleting it) or has called delete_secret for it, and every slot
\* allocated in the manager is embedded in a returned keyblob.
C7_SlotReleaseDiscipline ==
    /\ ReservedSlotSettled
    /\ \A slot \in SlotIds : sdd_slots[slot] # None => slot \in EmbeddedSlots

\* C7 as amended: an encrypt that reserved a slot returns it in the keyblob
\* (without deleting it) or has called delete_secret for it, and every slot
\* allocated in the manager is embedded in a returned keyblob or is a slot
\* whose delete_secret call failed in the drop (and was logged).
C7_SlotReleasedOrDeleteFailed ==
    /\ ReservedSlotSettled
    /\ \A slot \in SlotIds :
           sdd_slots[slot] # None => (slot \in EmbeddedSlots \/ slot \in drop_log)
    /\ EmbeddedSlots \cap drop_log = {}

\* An encrypt failed after reserving a slot, its delete_secret failed too, and
\* the slot is still allocated; another slot is held by a returned keyblob.
C7_Witness ==
    /\ kb_last.op = "encrypt"
    /\ kb_last.result = "AesFailed"
    /\ kb_last.reserved # None
    /\ sdd_slots[Unwrap(kb_last.reserved)] # None
    /\ Unwrap(kb_last.reserved) \in drop_log
    /\ EmbeddedSlots # {}

\* The parameters of a plaintext keyblob, at all security levels.
ParamsOf(plaintext_keyblob) ==
    UNION {{plaintext_keyblob.characteristics[i].authorizations[j] :
                j \in 1..Len(plaintext_keyblob.characteristics[i].authorizations)} :
           i \in 1..Len(plaintext_keyblob.characteristics)}
AsksForSecureDeletion(plaintext_keyblob) ==
    \/ RollbackResistance \in ParamsOf(plaintext_keyblob)
    \/ UsageCountLimit(1) \in ParamsOf(plaintext_keyblob)

\* C8: encrypt of a keyblob with RollbackResistance or UsageCountLimit(1) at
\* any security level, with no manager, returns RollbackResistanceUnavailable
\* without having called the RNG, the KDF or any other collaborator; encrypt
\* of a keyblob with neither parameter calls neither new_secret nor
\* delete_secret, reserves no slot and returns a keyblob without a slot.
C8_NoManagerNoSealing ==
    kb_last.op = "encrypt" =>
        /\ (AsksForSecureDeletion(kb_last.plaintext) /\ ~sdd_present) =>
               /\ kb_last.result = "RollbackResistanceUnavailable"
               /\ kb_last.trace = <<>>
               /\ kb_last.keyblob = None
        /\ ~AsksForSecureDeletion(kb_last.plaintext) =>
               /\ kb_last.reserved = None
               /\ ~Called(kb_last.trace, "new_secret")
               /\ ~Called(kb_last.trace, "delete_secret")
               /\ kb_last.keyblob # None =>
                      Unwrap(kb_last.keyblob).secure_deletion_slot = None

\* Without a manager, sealing a keyblob whose UsageCountLimit(1) sits at the
\* Keystore level was refused.
C8_Witness ==
    /\ ~sdd_present
    /\ kb_last.op = "encrypt"
    /\ UsageCountLimit(1) \in ParamsOf(kb_last.plaintext)
    /\ RollbackResistance \notin ParamsOf(kb_last.plaintext)
    /\ kb_last.result = "RollbackResistanceUnavailable"

\* The error of the collaborator that failed in an encrypt call.
FaultError(fault) ==
    CASE fault = "new_secret" -> "NewSecretFailed"
      [] fault = "derive_kek" -> "HkdfFailed"
      [] fault = "into_vec" -> "EncodeFailed"
      [] fault = "aead" -> "AesFailed"
      [] OTHER -> "Ok"

\* C9: when encrypt drops the holder of a reserved slot and delete_secret
\* fails, encrypt returns the error of the collaborator whose failure caused
\* the drop, and delete_secret was called exactly once for the slot.
C9_DeleteFailureNotPropagated ==
    (kb_last.op = "encrypt" /\ kb_last.reserved # None /\ kb_last.delete_fails) =>
        /\ kb_last.fault # "none"
        /\ kb_last.result = FaultError(kb_last.fault)
        /\ kb_last.result # "DeleteSecretFailed"
        /\ Calls(kb_last.trace, "delete_secret", Unwrap(kb_last.reserved)) = 1
        /\ Unwrap(kb_last.reserved) \in drop_log

\* key derivation failed after the slot was reserved, and so did the delete.
C9_Witness ==
    /\ kb_last.op = "encrypt"
    /\ kb_last.reserved # None
    /\ kb_last.delete_fails
    /\ kb_last.fault = "derive_kek"
    /\ kb_last.result = "HkdfFailed"

\* C10: decrypt of a returned keyblob with the hidden parameters and the root
\* key it was sealed with, with no collaborator failing and the manager
\* holding the secret of the keyblob's slot (if it has one) as at sealing,
\* returns a PlaintextKeyBlob with the characteristics and the key material
\* that were sealed.
C10_SealUnsealRoundTrip ==
    (/\ kb_last.op = "decrypt"
     /\ kb_last.fault = "none"
     /\ kb_last.hidden = kb_last.issued.hidden
     /\ kb_last.root_key = kb_last.issued.root_key
     /\ kb_last.issued.keyblob.secure_deletion_slot # None =>
            sdd_slots[Unwrap(kb_last.issued.keyblob.secure_deletion_slot)]
                = kb_last.issued.sdd)
    => /\ kb_last.result = "Ok"
       /\ kb_last.out # None
       /\ Unwrap(kb_last.out).characteristics = kb_last.issued.plaintext.characteristics
       /\ Unwrap(kb_last.out).key_material = kb_last.issued.plaintext.key_material

\* A keyblob bound to a slot was unsealed to what was sealed, while a keyblob
\* without a slot has been returned too.
C10_Witness ==
    /\ kb_last.op = "decrypt"
    /\ kb_last.result = "Ok"
    /\ kb_last.issued.keyblob.secure_deletion_slot # None
    /\ kb_last.out = Some(kb_last.issued.plaintext)
    /\ \E e \in kb_issued : e.keyblob.secure_deletion_slot = None

-----------------------------------------------------------------------------
(* Claims about the life of a keyblob, under SpecLifecycle *)

\* The manager holds, in the slot of the returned keyblob, the secret the
\* keyblob was sealed with (or the keyblob has no slot).
SecretIntact(issued) ==
    issued.keyblob.secure_deletion_slot # None =>
        /\ sdd_present
        /\ sdd_slots[Unwrap(issued.keyblob.secure_deletion_slot)] = issued.sdd

\* C11: decrypt of a returned keyblob, no collaborator failing and the
\* manager holding its secret, fails with InvalidKeyBlob and returns no
\* PlaintextKeyBlob when the hidden parameters or the root key differ from
\* those of the sealing, or when the keyblob's characteristics, its
\* key_derivation_input or its ciphertext have been altered.
C11_ContextBinding ==
    /\ (/\ kb_last.op = "decrypt"
        /\ kb_last.fault = "none"
        /\ SecretIntact(kb_last.issued)
        /\ \/ kb_last.hidden # kb_last.issued.hidden
           \/ kb_last.root_key # kb_last.issued.root_key)
       => (kb_last.result = "InvalidKeyBlob" /\ kb_last.out = None)
    /\ (/\ kb_last.op = "decrypt_altered"
        /\ kb_last.fault = "none"
        /\ SecretIntact(kb_last.issued)
        /\ kb_last.how \in {"characteristics", "key_derivation_input", "ciphertext"})
       => (kb_last.result = "InvalidKeyBlob" /\ kb_last.out = None)

\* A keyblob bound to a slot was presented with other hidden parameters (and
\* the right root key) and refused.
C11_Witness ==
    /\ kb_last.op = "decrypt"
    /\ kb_last.fault = "none"
    /\ kb_last.issued.keyblob.secure_deletion_slot # None
    /\ SecretIntact(kb_last.issued)
    /\ kb_last.hidden # kb_last.issued.hidden
    /\ kb_last.root_key = kb_last.issued.root_key
    /\ kb_last.result = "InvalidKeyBlob"

\* C12: delete_key on a keyblob with a slot (delete_secret succeeding) and
\* delete_all_keys leave the manager without the keyblob's secret; a secret
\* the manager has lost does not come back, also when the slot is handed out
\* again; and every decrypt of a keyblob whose secret the manager has lost
\* fails and returns no PlaintextKeyBlob.
C12_SecureDeletionFinal ==
    /\ [](/\ (/\ kb_last.op = "delete_key"
              /\ sdd_present
              /\ ~kb_last.delete_fails
              /\ kb_last.keyblob # None
              /\ Unwrap(kb_last.keyblob).secure_deletion_slot # None)
             => sdd_slots[Unwrap(Unwrap(kb_last.keyblob).secure_deletion_slot)] = None
          /\ (kb_last.op = "delete_all_keys" /\ sdd_present)
             => \A sl \in SlotIds : sdd_slots[sl] = None
          /\ (/\ kb_last.op = "decrypt"
              /\ kb_last.issued.sdd # None
              /\ ~SecretIntact(kb_last.issued))
             => (kb_last.result # "Ok" /\ kb_last.out = None))
    /\ [][\A e \in kb_issued : ~SecretIntact(e) => ~SecretIntact(e)']_vars

\* A keyblob's slot was emptied and handed out again to a newly sealed key;
\* the keyblob, presented with the hidden parameters and the root key of its
\* sealing, was refused.
C12_Witness ==
    /\ kb_last.op = "decrypt"
    /\ kb_last.issued.sdd # None
    /\ sdd_slots[Unwrap(kb_last.issued.keyblob.secure_deletion_slot)]
           \notin {None, kb_last.issued.sdd}
    /\ kb_last.hidden = kb_last.issued.hidden
    /\ kb_last.root_key = kb_last.issued.root_key
    /\ kb_last.fault = "none"
    /\ kb_last.result # "Ok"

\* The keyblob the last decrypt was given.
PresentedKeyblob ==
    IF kb_last.op = "decrypt" THEN kb_last.issued.keyblob ELSE kb_last.keyblob

\* C13: decrypt of a keyblob that carries a slot returns InvalidKeyBlob
\* without calling any collaborator when there is no manager; with a
\* manager whose get_secret fails (by itself or because the slot is empty),
\* it returns get_secret's error and neither derives a key nor starts an
\* AEAD operation.
C13_SlotNeedsSecret ==
    (/\ kb_last.op \in {"decrypt", "decrypt_altered"}
     /\ PresentedKeyblob.secure_deletion_slot # None)
    => LET slot == Unwrap(PresentedKeyblob.secure_deletion_slot)
       IN  /\ ~sdd_present =>
                  /\ kb_last.result = "InvalidKeyBlob"
                  /\ kb_last.out = None
                  /\ kb_last.trace = <<>>
           /\ (sdd_present /\ (kb_last.fault = "get_secret" \/ sdd_slots[slot] = None)) =>
                  /\ kb_last.result = get_secret(sdd_slots, slot, TRUE).result
                  /\ kb_last.out = None
                  /\ kb_last.trace = <<<<"get_secret", slot>>>>

\* Without a manager, a keyblob that names a slot was refused.
C13_Witness ==
    /\ ~sdd_present
    /\ kb_last.op = "decrypt_altered"
    /\ kb_last.how = "slot"
    /\ kb_last.keyblob.secure_deletion_slot # None
    /\ kb_last.result = "InvalidKeyBlob"

-----------------------------------------------------------------------------
(* KeyMintTa::keyblob_decrypt: version checks against the latched values *)

\* The version-like KeyParam values.
OsVersion(v) == <<"OsVersion", v>>
OsPatchlevel(v) == <<"OsPatchlevel", v>>
VendorPatchlevel(v) == <<"VendorPatchlevel", v>>
BootPatchlevel(v) == <<"BootPatchlevel", v>>

\* keyblob::characteristics_at(chars, sec_level): the authorizations of the
\* first entry at the level, or InvalidKeyBlob.
characteristics_at(chars, sec_level) ==
    LET at == {i \in 1..Len(chars) : chars[i].security_level = sec_level}
    IN  IF at = {} THEN [result |-> "InvalidKeyBlob", auths |-> <<>>]
        ELSE [result |-> "Ok",
              auths |-> chars[CHOOSE i \in at : \A j \in at : i <= j].authorizations]

\* fn check(v, curr, name) of keyblob_decrypt
check_swapped(v, curr) ==
    IF v < curr THEN "InvalidKeyBlob"
    ELSE IF v = curr THEN "Ok"
    ELSE "KeyRequiresUpgrade"

check(v, curr) ==
    IF v < curr THEN "KeyRequiresUpgrade"
    ELSE IF v = curr THEN "Ok"
    ELSE "InvalidKeyBlob"

\* The KeyParam::OsVersion(v) arm of the loop, hal_info being set to hal.
check_os_version_plain(v, hal) == check(v, hal.os_version)

check_os_version(v, hal) ==
    IF hal.os_version = 0
    THEN (IF v # 0 THEN "KeyRequiresUpgrade" ELSE "Ok")
    ELSE check(v, hal.os_version)

\* A plausible slip: a value that is not latched is taken as 0
\* (unwrap_or_default) and compared all the same.
check_param_default(param, hal, boot) ==
    CASE param[1] = "OsVersion" ->
             IF hal # None THEN check_os_version(param[2], Unwrap(hal))
             ELSE (IF param[2] # 0 THEN "KeyRequiresUpgrade" ELSE "Ok")
      [] param[1] = "OsPatchlevel" ->
             check(param[2], IF hal # None THEN Unwrap(hal).os_patchlevel ELSE 0)
      [] param[1] = "VendorPatchlevel" ->
             check(param[2], IF hal # None THEN Unwrap(hal).vendor_patchlevel ELSE 0)
      [] param[1] = "BootPatchlevel" ->
             check(param[2], IF boot # None THEN Unwrap(boot).boot_patchlevel ELSE 0)
      [] OTHER -> "Ok"

\* One round of the loop over key_chars: the result for one parameter, given
\* the latched values.
check_param(param, hal, boot) ==
    CASE param[1] = "OsVersion" ->
             IF hal # None THEN check_os_version(param[2], Unwrap(hal)) ELSE "Ok"
      [] param[1] = "OsPatchlevel" ->
             IF hal # None THEN check(param[2], Unwrap(hal).os_patchlevel) ELSE "Ok"
      [] param[1] = "VendorPatchlevel" ->
             IF hal # None THEN check(param[2], Unwrap(hal).vendor_patchlevel) ELSE "Ok"
      [] param[1] = "BootPatchlevel" ->
             IF boot # None THEN check(param[2], Unwrap(boot).boot_patchlevel) ELSE "Ok"
      [] OTHER -> "Ok"

\* A plausible slip: the loop runs to its end and the last failure is the
\* one returned.
RECURSIVE check_params_last(_, _, _)
check_params_last(key_chars, hal, boot) ==
    IF key_chars = <<>> THEN "Ok"
    ELSE LET r == check_params_last(Tail(key_chars), hal, boot)
         IN  IF r # "Ok" THEN r ELSE check_param(Head(key_chars), hal, boot)

\* The loop: the first parameter whose check fails ends it.
RECURSIVE check_params(_, _, _)
check_params(key_chars, hal, boot) ==
    IF key_chars = <<>> THEN "Ok"
    ELSE LET r == check_param(Head(key_chars), hal, boot)
         IN  IF r # "Ok" THEN r ELSE check_params(Tail(key_chars), hal, boot)

\* The root key of the device (self.dev.keys.root_kek).
DeviceRootKey == CHOOSE k \in RootKeys : \A o \in RootKeys : k <= o

\* KeyMintTa::keyblob_decrypt(encrypted_keyblob, hidden) on a TA at `level`
\* with the latched values hal and boot and the manager (present, slots).
keyblob_decrypt(level, hal, boot, present, slots, encrypted_keyblob, hidden) ==
    LET decrypted == decrypt(present, slots, DeviceRootKey, encrypted_keyblob, hidden, "none")
        keyblob == Unwrap(decrypted.out)
        key_chars == characteristics_at(keyblob.characteristics, level)
        checked == check_params(key_chars.auths, hal, boot)
    IN  IF decrypted.result # "Ok" THEN [result |-> decrypted.result, out |-> None]
        ELSE IF key_chars.result # "Ok" THEN [result |-> key_chars.result, out |-> None]
        ELSE IF checked # "Ok" THEN [result |-> checked, out |-> None]
        ELSE [result |-> "Ok", out |-> Some(keyblob)]

\* The version-like parameters a keyblob carries: values below, at and above
\* the ones the TA can latch.
VersionParams ==
    {OsVersion(v) : v \in 0..(MaxOsVersion + 1)}
        \cup {OsPatchlevel(v) : v \in Patchlevels}
        \cup {VendorPatchlevel(v) : v \in Patchlevels}
        \cup {BootPatchlevel(v) : v \in Patchlevels}
        \cup {Purpose("Sign")}

\* The authorization lists of the keyblobs presented: up to two parameters,
\* of different tags.
VersionAuths ==
    {<<>>} \cup {<<p>> : p \in VersionParams}
           \cup {a \in {<<p, q>> : p \in VersionParams, q \in VersionParams} :
                     a[1][1] # a[2][1]}

\* The characteristics of a keyblob with auths at key_level; with
\* keystore_entry, a further entry at the Keystore level whose OS version is
\* above every one the TA can latch.
VersionCharacteristics(key_level, auths, keystore_entry) ==
    <<KeyCharacteristics(key_level, auths)>>
        \o (IF keystore_entry
            THEN <<KeyCharacteristics("Keystore", <<OsVersion(MaxOsVersion + 1)>>)>>
            ELSE <<>>)

\* keyblob_decrypt of a keyblob sealed by this device from the plaintext
\* keyblob with the hidden parameters. The call takes &self: it is the
\* last step of a run.
KeyblobDecryptReq(plaintext_keyblob, hidden) ==
    LET sealed == encrypt(sdd_present, sdd_slots, DeviceRootKey, plaintext_keyblob, hidden,
                          Env("none", FALSE, 0, NextSecret, NextKdi))
        r == keyblob_decrypt(security_level, hal_info, boot_info, sdd_present, sdd_slots,
                             Unwrap(sealed.keyblob), hidden)
    IN  /\ kb_last.op = "none"
        /\ sealed.result = "Ok"
        /\ kb_last' = [op |-> "keyblob_decrypt", plaintext |-> plaintext_keyblob,
                       result |-> r.result, out |-> r.out]
        /\ UNCHANGED <<ta_vars, uc_vars, wire, sdd_present, sdd_slots, drop_log, kb_issued>>

\* The keyblobs presented: a key of the TEE, and a StrongBox key that also
\* has a Keystore entry.
KeyShapes ==
    {[key_level |-> "TrustedEnvironment", keystore_entry |-> FALSE,
      key_material |-> [alg |-> "Aes", key |-> 15], hidden |-> <<>>],
     [key_level |-> "Strongbox", keystore_entry |-> TRUE,
      key_material |-> [alg |-> "Hmac", key |-> 7], hidden |-> <<ApplicationId(1)>>]}

KeyblobDecrypt ==
    \E shape \in KeyShapes, auths \in VersionAuths :
        KeyblobDecryptReq(
            PlaintextKeyBlob(VersionCharacteristics(shape.key_level, auths,
                                                    shape.keystore_entry),
                             shape.key_material),
            shape.hidden)

\* The bootloader reports a verified boot.
VerifiedBootInfo == {b \in BootInfo : b.verified_boot_state = "Verified"}

\* The HAL and the bootloader each report once, before keys are used.
LatchHalInfo == kb_last.op = "none" /\ hal_info = None /\ SetHalInfo
LatchBootInfo ==
    kb_last.op = "none" /\ boot_info = None /\ \E b \in VerifiedBootInfo : SetBootInfoReq(b)

InitVersions ==
    /\ \E level \in SecurityLevels : TaNew(level)
    /\ UcIdle
    /\ sdd_present = FALSE
    /\ sdd_slots = [sl \in SlotIds |-> None]
    /\ drop_log = {}
    /\ kb_issued = {}
    /\ kb_last = [op |-> "none"]

NextVersions == LatchHalInfo \/ LatchBootInfo \/ KeyblobDecrypt

SpecVersions == InitVersions /\ [][NextVersions]_vars

-----------------------------------------------------------------------------
(* Claims about the version checks of keyblob_decrypt *)

\* The characteristics entries of the decrypted keyblob at the TA's level.
LocalEntries ==
    {i \in 1..Len(kb_last.plaintext.characteristics) :
        kb_last.plaintext.characteristics[i].security_level = security_level}

\* The authorizations the version checks walk.
LocalAuths ==
    kb_last.plaintext.characteristics[
        CHOOSE i \in LocalEntries : \A j \in LocalEntries : i <= j].authorizations

\* The latched value a parameter is compared with, if there is one.
CurrentOf(param) ==
    IF param[1] = "OsVersion" /\ hal_info # None THEN Some(Unwrap(hal_info).os_version)
    ELSE IF param[1] = "OsPatchlevel" /\ hal_info # None
    THEN Some(Unwrap(hal_info).os_patchlevel)
    ELSE IF param[1] = "VendorPatchlevel" /\ hal_info # None
    THEN Some(Unwrap(hal_info).vendor_patchlevel)
    ELSE IF param[1] = "BootPatchlevel" /\ boot_info # None
    THEN Some(Unwrap(boot_info).boot_patchlevel)
    ELSE None

\* The positions of the fields that differ from their latched value.
Differing ==
    {i \in 1..Len(LocalAuths) :
        /\ CurrentOf(LocalAuths[i]) # None
        /\ LocalAuths[i][2] # Unwrap(CurrentOf(LocalAuths[i]))}

FirstDiffering == CHOOSE i \in Differing : \A j \in Differing : i <= j

VersionsChecked == kb_last.op = "keyblob_decrypt" /\ LocalEntries # {}

OsVersionZero == hal_info # None /\ Unwrap(hal_info).os_version = 0

\* C14: keyblob_decrypt compares each version field found in the
\* characteristics at the TA's own security level with its latched value (the
\* latched os_version being non-zero): the keyblob is returned exactly when no
\* field differs, and otherwise the first differing field decides: a value
\* less than the current one gives KeyRequiresUpgrade, a greater one
\* InvalidKeyBlob.
C14_UpgradeDetection ==
    (VersionsChecked /\ ~OsVersionZero) =>
        /\ (Differing = {}) <=> (kb_last.result = "Ok")
        /\ (kb_last.out # None) <=> (kb_last.result = "Ok")
        /\ kb_last.result = "Ok" => kb_last.out = Some(kb_last.plaintext)
        /\ Differing # {} =>
               LET param == LocalAuths[FirstDiffering]
               IN  kb_last.result = IF param[2] < Unwrap(CurrentOf(param))
                                    THEN "KeyRequiresUpgrade"
                                    ELSE "InvalidKeyBlob"

\* A keyblob with an old field followed by a future field needs an upgrade.
C14_Witness ==
    /\ VersionsChecked /\ ~OsVersionZero
    /\ Cardinality(Differing) = 2
    /\ kb_last.result = "KeyRequiresUpgrade"
    /\ \E i \in Differing : LocalAuths[i][2] > Unwrap(CurrentOf(LocalAuths[i]))

\* The positions of the fields other than OsVersion that differ.
OtherDiffering == {i \in Differing : LocalAuths[i][1] # "OsVersion"}

\* The positions of the non-zero OsVersion fields.
NonZeroOsVersion ==
    {i \in 1..Len(LocalAuths) : LocalAuths[i][1] = "OsVersion" /\ LocalAuths[i][2] # 0}

\* C15: with the latched os_version 0, a keyblob with a non-zero OsVersion
\* is rejected, with KeyRequiresUpgrade unless another field is from the
\* future, and a keyblob whose OsVersion is 0 passes the OS-version check.
C15_OsVersionZero ==
    (VersionsChecked /\ OsVersionZero) =>
        /\ NonZeroOsVersion # {} => kb_last.result \in {"KeyRequiresUpgrade", "InvalidKeyBlob"}
        /\ (NonZeroOsVersion # {} /\ kb_last.result = "InvalidKeyBlob") =>
               \E i \in OtherDiffering :
                   LocalAuths[i][2] > Unwrap(CurrentOf(LocalAuths[i]))
        /\ (NonZeroOsVersion # {} /\ OtherDiffering = {}) =>
               kb_last.result = "KeyRequiresUpgrade"
        /\ (NonZeroOsVersion = {} /\ OtherDiffering = {}) => kb_last.result = "Ok"

\* A keyblob from an OS version above 0 meets a TA whose OS version is 0.
C15_Witness ==
    /\ VersionsChecked /\ OsVersionZero
    /\ \E i \in NonZeroOsVersion : LocalAuths[i][2] > 0
    /\ OtherDiffering = {}
    /\ kb_last.result = "KeyRequiresUpgrade"

-----------------------------------------------------------------------------
(* KeyMintTa::process: serialized requests in, serialized responses out *)

\* AttestationIdInfo values a caller may configure.
AttestationIdInfo ==
    {[brand |-> b, manufacturer |-> "m", product |-> "p", model |-> "o", device |-> "d"] :
        b \in {"a", "b"}}

\* A set_attestation_ids that overwrites IDs set earlier.
set_attestation_ids_overwrite(ids) ==
    IF dev_attest_ids THEN UNCHANGED attestation_id_info
    ELSE attestation_id_info' = Some(ids)

\* set_attestation_ids: ignored when the device has its own attestation ID
\* implementation or when the IDs are already set.
set_attestation_ids(ids) ==
    IF dev_attest_ids THEN UNCHANGED attestation_id_info
    ELSE IF attestation_id_info # None THEN UNCHANGED attestation_id_info
    ELSE attestation_id_info' = Some(ids)

\* A SetAttestationIds arm that fails the request when the IDs are ignored.
process_req_SetAttestationIds_strict(ids) ==
    /\ set_attestation_ids(ids)
    /\ rsp' = Response("SetAttestationIds",
                       IF dev_attest_ids \/ attestation_id_info # None
                       THEN "InvalidArgument" ELSE "Ok")
    /\ note' = Note(dev_attest_ids \/ attestation_id_info # None, attestation_id_info,
                    Some(ids))
    /\ UNCHANGED <<security_level, in_early_boot, boot_info, rot_data, hal_info,
                   hmac_key, rot_challenge, dev_attest_ids>>
    /\ UNCHANGED <<lock_vars, uc_vars, kb_vars>>

\* PerformOpReq::SetAttestationIds carrying the IDs.
process_req_SetAttestationIds(ids) ==
    /\ set_attestation_ids(ids)
    /\ rsp' = Response("SetAttestationIds", "Ok")
    /\ note' = Note(dev_attest_ids \/ attestation_id_info # None, attestation_id_info,
                    Some(ids))
    /\ UNCHANGED <<security_level, in_early_boot, boot_info, rot_data, hal_info,
                   hmac_key, rot_challenge, dev_attest_ids>>
    /\ UNCHANGED <<lock_vars, uc_vars, kb_vars>>

\* A SetBootInfoRequest carries its verified_boot_state as a number; this
\* one carries a number that VerifiedBootState::try_from rejects.
UnrecognisedBootState ==
    [verified_boot_key |-> 0, device_boot_locked |-> FALSE,
     verified_boot_state |-> "Unrecognised", verified_boot_hash |-> 0,
     boot_patchlevel |-> MaxPatchlevel]

\* The requests of the model, as PerformOpReq values.
PerformOpReq ==
    [op : {"SetBootInfo"}, arg : BootInfo \cup {UnrecognisedBootState}]
        \cup [op : {"SetHalInfo"}, arg : HalInfo]
        \cup [op : {"SetAttestationIds"}, arg : AttestationIdInfo]
        \cup [op : {"DeviceEarlyBootEnded"}, arg : {<<>>}]

\* The serialized form of a request: a two-element array.
PerformOpReq_into_vec(req) == <<130, req>>

\* Request bytes that are not the encoding of any request: the single byte
\* 0xFF, no bytes at all, and an array header with nothing after it.
Undecodable == {<<255>>, <<>>, <<130>>}

\* PerformOpReq::from_slice: None when the bytes do not decode.
PerformOpReq_from_slice(req_data) ==
    IF Len(req_data) = 2 /\ req_data[1] = 130 THEN Some(req_data[2]) ELSE None

\* The number of an ErrorCode.
ErrorCodeValue(code) ==
    CASE code = "Ok" -> 0
      [] code = "InvalidArgument" -> -38
      [] code = "HardwareNotYetAvailable" -> -85
      [] code = "Unimplemented" -> -100
      [] code = "UnknownError" -> -1000

\* The encoding of an integer: major type 0 for v >= 0, major type 1 with
\* argument -1 - v otherwise; the argument inline below 24, else in one or
\* two bytes.
cbor_int(v) ==
    LET major == IF v >= 0 THEN 0 ELSE 32
        arg == IF v >= 0 THEN v ELSE (0 - 1) - v
    IN  IF arg < 24 THEN <<major + arg>>
        ELSE IF arg < 256 THEN <<major + 24, arg>>
        ELSE <<major + 25, arg \div 256, arg % 256>>

\* PerformOpResponse::into_vec: the array [error_code, payload?], the
\* payload being an array that is empty for None.
PerformOpResponse_into_vec(r) ==
    <<130>> \o cbor_int(ErrorCodeValue(r.error_code))
            \o (IF r.rsp = None THEN <<128>> ELSE <<129, <<"PerformOpRsp", Unwrap(r.rsp)>>>>)

\* invalid_cbor_rsp_data: the hand-encoded response for UnknownError.
invalid_cbor_rsp_data_999 == <<130, 57, 3, 230, 128>>

invalid_cbor_rsp_data == <<130, 57, 3, 231, 128>>

\* Whether the verified_boot_state a request carries is one that
\* VerifiedBootState::try_from accepts (requests that carry none pass).
Recognised(req) ==
    req.op = "SetBootInfo" => req.arg.verified_boot_state \in VerifiedBootStates

\* process_req for the requests of the model: the arm of the request's
\* variant.
process_req(req) ==
    CASE req.op = "SetBootInfo" ->
             IF ~Recognised(req)
             THEN process_req_SetBootInfoBadState
             ELSE process_req_SetBootInfo(req.arg)
      [] req.op = "SetHalInfo" -> process_req_SetHalInfo(req.arg)
      [] req.op = "SetAttestationIds" -> process_req_SetAttestationIds(req.arg)
      [] req.op = "DeviceEarlyBootEnded" -> process_req_DeviceEarlyBootEnded

\* What process does with the response once it has one: into_vec, and the
\* hand-encoded bytes when into_vec fails. Of the request the record keeps
\* the bytes when they did not decode, and else the operation asked for.
process_reply(req_data, decoded, r, encode_fails) ==
    [op |-> "process", rejected |-> IF decoded THEN None ELSE Some(req_data),
     decoded |-> decoded,
     request |-> IF decoded
                 THEN LET req == Unwrap(PerformOpReq_from_slice(req_data))
                      IN  Some([op |-> req.op, recognised |-> Recognised(req)])
                 ELSE None,
     trace |-> <<"from_slice", "into_vec">>, encode_failed |-> encode_fails,
     data |-> IF encode_fails THEN invalid_cbor_rsp_data
              ELSE PerformOpResponse_into_vec(r)]

\* A process that answers undecodable bytes without the encoder.
process_without_encoder(req_data, encode_fails) ==
    LET req == PerformOpReq_from_slice(req_data)
    IN  IF req = None
        THEN /\ rsp' = [op |-> "none", error_code |-> "UnknownError", rsp |-> None]
             /\ note' = "none"
             /\ wire' = [op |-> "process", rejected |-> Some(req_data), decoded |-> FALSE,
                         request |-> None,
                         trace |-> <<"from_slice">>, encode_failed |-> FALSE,
                         data |-> invalid_cbor_rsp_data]
             /\ UNCHANGED <<security_level, in_early_boot, boot_info, rot_data, hal_info,
                            hmac_key, rot_challenge, dev_attest_ids, attestation_id_info>>
             /\ UNCHANGED <<lock_vars, uc_vars, kb_vars>>
        ELSE /\ process_req(Unwrap(req))
             /\ wire' = process_reply(req_data, TRUE, rsp', encode_fails)

\* KeyMintTa::process(req_data); encode_fails says whether into_vec fails on
\* the response.
process(req_data, encode_fails) ==
    LET req == PerformOpReq_from_slice(req_data)
    IN  IF req = None
        THEN /\ rsp' = [op |-> "none", error_code |-> error_rsp("UnknownError").error_code,
                        rsp |-> error_rsp("UnknownError").rsp]
             /\ note' = "none"
             /\ wire' = process_reply(req_data, FALSE, rsp', encode_fails)
             /\ UNCHANGED <<security_level, in_early_boot, boot_info, rot_data, hal_info,
                            hmac_key, rot_challenge, dev_attest_ids, attestation_id_info>>
             /\ UNCHANGED <<lock_vars, uc_vars, kb_vars>>
        ELSE /\ process_req(Unwrap(req))
             /\ wire' = process_reply(req_data, TRUE, rsp', encode_fails)

ProcessUndecodable ==
    \E req_data \in Undecodable, encode_fails \in BOOLEAN : process(req_data, encode_fails)

ProcessSetBootInfo ==
    \E req \in {r \in PerformOpReq : r.op = "SetBootInfo"}, encode_fails \in BOOLEAN :
        process(PerformOpReq_into_vec(req), encode_fails)

ProcessSetHalInfo ==
    \E req \in {r \in PerformOpReq : r.op = "SetHalInfo"}, encode_fails \in BOOLEAN :
        process(PerformOpReq_into_vec(req), encode_fails)

ProcessSetAttestationIds ==
    \E req \in {r \in PerformOpReq : r.op = "SetAttestationIds"}, encode_fails \in BOOLEAN :
        process(PerformOpReq_into_vec(req), encode_fails)

ProcessDeviceEarlyBootEnded ==
    \E req \in {r \in PerformOpReq : r.op = "DeviceEarlyBootEnded"}, encode_fails \in BOOLEAN :
        process(PerformOpReq_into_vec(req), encode_fails)

\* A TEE, with or without an attestation ID implementation of its own.
InitProcess ==
    /\ \E attest_ids \in BOOLEAN : KeyMintTa_new("TrustedEnvironment", attest_ids, FALSE)
    /\ UcIdle
    /\ KbIdle

NextProcess ==
    \/ ProcessUndecodable
    \/ ProcessSetBootInfo
    \/ ProcessSetHalInfo
    \/ ProcessSetAttestationIds
    \/ ProcessDeviceEarlyBootEnded

SpecProcess == InitProcess /\ [][NextProcess]_vars

-----------------------------------------------------------------------------
(* Claims about process, checked under SpecProcess *)

\* The fields of the TA.
ta_fields == <<security_level, in_early_boot, boot_info, rot_data, hal_info, hmac_key,
               rot_challenge, dev_attest_ids, attestation_id_info, device_locked>>

\* The last process call was given bytes that do not decode.
DecodeFailed == wire.op = "process" /\ ~wire.decoded

\* C16: whenever the request bytes fail to decode, in every TA state,
\* process returns exactly the bytes 82 39 03 E7 80 and changes no TA state.
C16_InvalidRequestFallback ==
    /\ [](DecodeFailed => wire.data = <<130, 57, 3, 231, 128>>)
    /\ [][DecodeFailed' => UNCHANGED ta_fields]_vars

\* The single byte 0xFF is answered twice, by the encoder's bytes and by
\* the hand-encoded ones, on a TA that has latched its configuration.
C16_Witness ==
    /\ DecodeFailed
    /\ wire.rejected = Some(<<255>>)
    /\ wire.encode_failed
    /\ hal_info # None /\ boot_info # None /\ attestation_id_info # None
    /\ wire.data = <<130, 57, 3, 231, 128>>

\* C17 as stated: on decode failure the response encoder is not run.
C17_NoEncoderOnDecodeFailure ==
    DecodeFailed => \A i \in 1..Len(wire.trace) : wire.trace[i] # "into_vec"

\* C17, amended: on decode failure process builds error_rsp(UnknownError)
\* and runs the response encoder on it as for any other response; the
\* hand-encoded bytes are returned exactly when that encoding fails, and
\* otherwise the encoder's output is.
C17_EncoderRunOnDecodeFailure ==
    DecodeFailed =>
        /\ wire.trace = <<"from_slice", "into_vec">>
        /\ rsp.error_code = "UnknownError" /\ rsp.rsp = None
        /\ wire.data = IF wire.encode_failed THEN invalid_cbor_rsp_data
                       ELSE PerformOpResponse_into_vec(error_rsp("UnknownError"))

\* Undecodable bytes whose error response the encoder serializes.
C17_Witness ==
    /\ DecodeFailed
    /\ ~wire.encode_failed
    /\ wire.trace[Len(wire.trace)] = "into_vec"

\* The last process call was given a configuration request, SetBootInfo
\* with a recognised state.
ConfigurationWrite ==
    /\ wire.op = "process" /\ wire.decoded
    /\ Unwrap(wire.request).op \in {"SetHalInfo", "SetAttestationIds", "SetBootInfo"}
    /\ Unwrap(wire.request).recognised

\* C19: a SetHalInfo, a SetAttestationIds and a SetBootInfo request with a
\* recognised verified-boot state is answered with error_code Ok, both when
\* it latches its value and when the value is ignored.
C19_LatchedWritesSucceed ==
    ConfigurationWrite =>
        /\ note \in {"stored", "kept_equal", "kept_different"}
        /\ rsp.op = Unwrap(wire.request).op
        /\ rsp.error_code = "Ok"

\* Attestation IDs that differ from the ones already set are ignored and
\* the request is answered Ok, the serialized response starting 82 00.
C19_Witness ==
    /\ wire.op = "process" /\ wire.decoded /\ ~wire.encode_failed
    /\ rsp.op = "SetAttestationIds"
    /\ note = "kept_different"
    /\ ~dev_attest_ids
    /\ hal_info # None /\ boot_info # None
    /\ rsp.error_code = "Ok"
    /\ SubSeq(wire.data, 1, 2) = <<130, 0>>

-----------------------------------------------------------------------------
(* KeyMintTa::device_locked and add_rng_entropy *)

Timestamps == 1..MaxTime

\* clock::timestamp_token_mac_input: the bytes a TimeStampToken's MAC is
\* computed over, made of its challenge and its timestamp.
timestamp_token_mac_input(token) == <<"TimeStampToken", token.challenge, token.timestamp>>

\* A TimeStampToken whose MAC was made under key k over the token's own
\* fields or, when signed_timestamp is another timestamp, over that one.
TimeStampToken(challenge, timestamp, k, signed_timestamp) ==
    [challenge |-> challenge, timestamp |-> timestamp,
     mac |-> HmacSha256(k, <<"TimeStampToken", challenge, signed_timestamp>>)]

\* The tokens a caller may send along: made by a holder of an agreed key or
\* by someone else, with the MAC over the timestamp carried or over another.
TimeStampTokens ==
    {TimeStampToken(c, t, k, st) :
        c \in {ZeroChallenge}, t \in Timestamps, k \in HmacKeys \cup {ForeignKey},
        st \in Timestamps}

\* The time device_locked takes as `now`: the local clock's (clock_now) when
\* there is a clock, else the timestamp of a token whose MAC verifies; the
\* trace lists the collaborator calls made.
device_locked_now_unverified(timestamp_token, clock_now) ==
    IF imp_clock THEN [err |-> "Ok", now |-> clock_now, trace |-> <<<<"clock.now", clock_now>>>>]
    ELSE IF timestamp_token # None
    THEN [err |-> "Ok", now |-> Unwrap(timestamp_token).timestamp, trace |-> <<>>]
    ELSE [err |-> "InvalidArgument", now |-> 0, trace |-> <<>>]

device_locked_now(timestamp_token, clock_now) ==
    IF imp_clock THEN [err |-> "Ok", now |-> clock_now, trace |-> <<<<"clock.now", clock_now>>>>]
    ELSE IF timestamp_token # None
    THEN LET token == Unwrap(timestamp_token)
             mac_input == timestamp_token_mac_input(token)
             v == verify_device_hmac(mac_input, token.mac)
             calls == <<<<"verify_device_hmac", mac_input>>>>
         IN  IF ~v.ok THEN [err |-> v.err, now |-> 0, trace |-> calls]
             ELSE IF ~v.eq THEN [err |-> "InvalidArgument", now |-> 0, trace |-> calls]
             ELSE [err |-> "Ok", now |-> token.timestamp, trace |-> calls]
    ELSE [err |-> "InvalidArgument", now |-> 0, trace |-> <<>>]

\* PerformOpReq::DeviceDeviceLocked(password_only, timestamp_token).
DeviceDeviceLockedReq(password_only, timestamp_token, clock_now) ==
    LET r == device_locked_now(timestamp_token, clock_now)
    IN  /\ device_locked' = IF r.err # "Ok" THEN device_locked
                            ELSE IF password_only THEN PasswordLockedSince(r.now)
                            ELSE LockedSince(r.now)
        /\ imp_trace' = [op |-> "device_locked", password_only |-> password_only,
                         timestamp_token |-> timestamp_token, calls |-> r.trace]
        /\ rsp' = Response("DeviceDeviceLocked", r.err)
        /\ note' = "none"
        /\ UNCHANGED <<security_level, in_early_boot, boot_info, rot_data, hal_info,
                       hmac_key, rot_challenge, dev_attest_ids, attestation_id_info,
                       imp_clock>>
        /\ UNCHANGED <<uc_vars, kb_vars, wire>>

\* The clock is read only when there is one.
DeviceDeviceLocked ==
    \E password_only \in BOOLEAN,
       timestamp_token \in {None} \cup {Some(t) : t \in TimeStampTokens},
       clock_now \in Timestamps :
        /\ ~imp_clock => clock_now = MaxTime
        /\ DeviceDeviceLockedReq(password_only, timestamp_token, clock_now)

\* The longest payload add_rng_entropy accepts.
MaxEntropyLen == 2048

\* Entropy payloads: their length, around the limit, and what fills them.
EntropyData ==
    [len : {0, 1, MaxEntropyLen - 1, MaxEntropyLen, MaxEntropyLen + 1,
            MaxEntropyLen + MaxTime},
     fill : Timestamps]

\* add_rng_entropy with the test at the limit included in the rejection.
add_rng_entropy_strict(data) ==
    IF data.len >= MaxEntropyLen THEN [err |-> "InvalidInputLength", trace |-> <<>>]
    ELSE [err |-> "Ok", trace |-> <<<<"rng.add_entropy", data>>>>]

\* add_rng_entropy(data): the error code and the calls made on the RNG.
add_rng_entropy(data) ==
    IF data.len > MaxEntropyLen THEN [err |-> "InvalidInputLength", trace |-> <<>>]
    ELSE [err |-> "Ok", trace |-> <<<<"rng.add_entropy", data>>>>]

\* PerformOpReq::DeviceAddRngEntropy(data).
DeviceAddRngEntropyReq(data) ==
    LET r == add_rng_entropy(data)
    IN  /\ imp_trace' = [op |-> "add_rng_entropy", data |-> data, calls |-> r.trace]
        /\ rsp' = Response("DeviceAddRngEntropy", r.err)
        /\ note' = "none"
        /\ UNCHANGED <<security_level, in_early_boot, boot_info, rot_data, hal_info,
                       hmac_key, rot_challenge, dev_attest_ids, attestation_id_info,
                       imp_clock, device_locked>>
        /\ UNCHANGED <<uc_vars, kb_vars, wire>>

DeviceAddRngEntropy == \E data \in EntropyData : DeviceAddRngEntropyReq(data)

\* Byte k (0 the least significant) of the two's complement of x in a field
\* of any width, for |x| < 2^24: the bytes above the third are the sign.
byte_of(x, k) == IF k <= 2 THEN (x \div (256 ^ k)) % 256 ELSE IF x < 0 THEN 255 ELSE 0
\* iN::to_be_bytes and iN::to_le_bytes for a field of w bytes.
to_be_bytes(x, w) == [i \in 1..w |-> byte_of(x, w - i)]
to_le_bytes(x, w) == [i \in 1..w |-> byte_of(x, i - 1)]
\* iN::to_ne_bytes: the byte order of the target the TA is built for.
Endians == {"little", "big"}
to_ne_bytes(x, w, endian) == IF endian = "big" THEN to_be_bytes(x, w) ELSE to_le_bytes(x, w)

\* HardwareAuthenticatorType as i32: None, Password, Fingerprint, and Any
\* (0xFFFFFFFF, -1 as an i32).
HardwareAuthenticatorTypes == {0, 1, 2, -1}
\* HardwareAuthToken
HardwareAuthToken(challenge, user_id, authenticator_id, authenticator_type, timestamp, mac) ==
    [challenge |-> challenge, user_id |-> user_id, authenticator_id |-> authenticator_id,
     authenticator_type |-> authenticator_type, timestamp |-> timestamp, mac |-> mac]
AuthTokenMacs == {<<>>, <<9>>}
HardwareAuthTokens ==
    {HardwareAuthToken(c, u, a, ty, t, m) :
        c \in {-1, 0, 258}, u \in {0, 258}, a \in {-2, 1}, ty \in HardwareAuthenticatorTypes,
        t \in {0} \cup {65536 * n : n \in Timestamps}, m \in AuthTokenMacs}

\* The same with every field in big-endian order.
hardware_auth_token_mac_input_all_be(token, endian) ==
    <<0>> \o to_be_bytes(token.challenge, 8) \o to_be_bytes(token.user_id, 8)
        \o to_be_bytes(token.authenticator_id, 8)
        \o to_be_bytes(token.authenticator_type, 4) \o to_be_bytes(token.timestamp, 8)

\* hardware_auth_token_mac_input(token)
hardware_auth_token_mac_input(token, endian) ==
    to_be_bytes(0, 1)
        \o to_ne_bytes(token.challenge, 8, endian)
        \o to_ne_bytes(token.user_id, 8, endian)
        \o to_ne_bytes(token.authenticator_id, 8, endian)
        \o to_be_bytes(token.authenticator_type, 4)
        \o to_be_bytes(token.timestamp, 8)

\* A call of hardware_auth_token_mac_input on a build of the given byte
\* order.
HardwareAuthTokenMacInputReq(token, endian) ==
    /\ imp_trace.op = "none"
    /\ imp_trace' = [op |-> "hardware_auth_token_mac_input", token |-> token,
                     endian |-> endian,
                     result |-> hardware_auth_token_mac_input(token, endian)]
    /\ UNCHANGED <<security_level, in_early_boot, boot_info, rot_data, hal_info, hmac_key,
                   rot_challenge, dev_attest_ids, attestation_id_info, imp_clock,
                   device_locked, rsp, note, uc_vars, kb_vars, wire>>

HardwareAuthTokenMacInput ==
    \E token \in HardwareAuthTokens, endian \in Endians :
        HardwareAuthTokenMacInputReq(token, endian)

\* A TEE with or without a local clock.
InitLock ==
    /\ \E clock \in BOOLEAN : KeyMintTa_new("TrustedEnvironment", FALSE, clock)
    /\ UcIdle
    /\ KbIdle

NextLock ==
    \/ SharedSecretComputeSharedSecret
    \/ DeviceDeviceLocked
    \/ DeviceAddRngEntropy
    \/ HardwareAuthTokenMacInput

SpecLock == InitLock /\ [][NextLock]_vars

-----------------------------------------------------------------------------
(* Claims about device_locked and add_rng_entropy, checked under SpecLock *)

\* The token's MAC is the one the agreed HMAC key gives over its fields.
MacVerifies(token) ==
    /\ hmac_key # None
    /\ token.mac = HmacSha256(Unwrap(hmac_key), timestamp_token_mac_input(token))

\* The lock state device_locked records for time t.
LockRecorded(password_only, t) ==
    IF password_only THEN PasswordLockedSince(t) ELSE LockedSince(t)

\* What a device_locked step does when it has a trusted time: with a clock
\* it records the clock's time, without one the timestamp of a verifying
\* token; holds of every other device_locked step too.
TrustedTimeRecorded ==
    LET password_only == imp_trace'.password_only
        token == imp_trace'.timestamp_token
    IN  /\ imp_clock =>
               /\ rsp'.error_code = "Ok"
               /\ \E t \in Timestamps :
                      /\ imp_trace'.calls = <<<<"clock.now", t>>>>
                      /\ device_locked' = LockRecorded(password_only, t)
        /\ (~imp_clock /\ token # None /\ MacVerifies(Unwrap(token))) =>
               /\ rsp'.error_code = "Ok"
               /\ device_locked' = LockRecorded(password_only, Unwrap(token).timestamp)

NoTrustedTime ==
    /\ ~imp_clock
    /\ imp_trace'.timestamp_token # None => ~MacVerifies(Unwrap(imp_trace'.timestamp_token))

\* C21 as stated: with a clock, or with a token whose MAC verifies, the lock
\* state is recorded; in every other case device_locked fails with
\* InvalidArgument and the lock state is unchanged.
C21_LockNeedsTrustedTime ==
    [][rsp'.op = "DeviceDeviceLocked" =>
           /\ TrustedTimeRecorded
           /\ NoTrustedTime =>
                  (rsp'.error_code = "InvalidArgument" /\ UNCHANGED device_locked)]_vars

\* C21, amended: as stated, except that a token presented before any HMAC
\* key is negotiated fails with HardwareNotYetAvailable, the lock state
\* being unchanged then too.
C21_LockNeedsTrustedTimeOrKey ==
    [][rsp'.op = "DeviceDeviceLocked" =>
           /\ TrustedTimeRecorded
           /\ NoTrustedTime =>
                  /\ UNCHANGED device_locked
                  /\ rsp'.error_code =
                         IF imp_trace'.timestamp_token # None /\ hmac_key = None
                         THEN "HardwareNotYetAvailable"
                         ELSE "InvalidArgument"]_vars

\* A device locked earlier is sent a token made under a key that was not
\* negotiated: InvalidArgument, and the lock state stays.
C21_Witness ==
    /\ rsp.op = "DeviceDeviceLocked"
    /\ ~imp_clock /\ hmac_key # None
    /\ imp_trace.timestamp_token # None
    /\ ~MacVerifies(Unwrap(imp_trace.timestamp_token))
    /\ rsp.error_code = "InvalidArgument"
    /\ device_locked # Unlocked

\* C22: add_rng_entropy rejects a payload longer than 2048 bytes with
\* InvalidInputLength and passes nothing to the RNG; it passes every payload
\* of 0 to 2048 bytes to the RNG, whole and once, and returns Ok.
C22_EntropyLengthLimit ==
    (rsp.op = "DeviceAddRngEntropy" /\ imp_trace.op = "add_rng_entropy") =>
        IF imp_trace.data.len > 2048
        THEN rsp.error_code = "InvalidInputLength" /\ imp_trace.calls = <<>>
        ELSE /\ rsp.error_code = "Ok"
             /\ imp_trace.calls = <<<<"rng.add_entropy", imp_trace.data>>>>

\* A payload of exactly 2048 bytes is passed to the RNG.
C22_Witness ==
    /\ rsp.op = "DeviceAddRngEntropy" /\ imp_trace.op = "add_rng_entropy"
    /\ imp_trace.data.len = 2048
    /\ rsp.error_code = "Ok"
    /\ Len(imp_trace.calls) = 1

-----------------------------------------------------------------------------
(* Keyblob codec: EncryptedKeyBlob::new over untrusted bytes *)

\* cbor::value::Value. Every value is a record of the same four fields:
\* n is the integer, the tag number, the simple value or the length of a
\* byte string; bytes the content of a byte string; items the elements of an
\* array, the pairs of a map flattened, or the one value under a tag.
Value(kind, n, bytes, items) == [kind |-> kind, n |-> n, bytes |-> bytes, items |-> items]
Value_Integer(n) == Value("Integer", n, <<>>, <<>>)
Value_Bytes(b) == Value("Bytes", Len(b), b, <<>>)
Value_Array(a) == Value("Array", Len(a), <<>>, a)
Value_Map(a) == Value("Map", Len(a) \div 2, <<>>, a)
Value_Tag(tag, inner_value) == Value("Tag", tag, <<>>, <<inner_value>>)
Value_Null == Value("Simple", 22, <<>>, <<>>)

\* n zero bytes.
Zeros(n) == [i \in 1..n |-> 0]

\* The CBOR head of an item: major type and argument, the argument in the
\* initial byte below 24 and in one following byte from 24 to 255.
cbor_head(major, arg) == IF arg < 24 THEN <<32 * major + arg>> ELSE <<32 * major + 24, arg>>

RECURSIVE cbor_bytes(_)
RECURSIVE cbor_bytes_all(_)
\* Serialization of a value (into_vec of the values the model builds).
cbor_bytes(v) ==
    CASE v.kind = "Integer" -> cbor_head(0, v.n)
      [] v.kind = "Bytes" -> cbor_head(2, v.n) \o v.bytes
      [] v.kind = "Array" -> cbor_head(4, v.n) \o cbor_bytes_all(v.items)
      [] v.kind = "Map" -> cbor_head(5, v.n) \o cbor_bytes_all(v.items)
      [] v.kind = "Tag" -> cbor_head(6, v.n) \o cbor_bytes_all(v.items)
      [] OTHER -> cbor_head(7, v.n)
cbor_bytes_all(vs) ==
    IF vs = <<>> THEN <<>> ELSE cbor_bytes(Head(vs)) \o cbor_bytes_all(Tail(vs))

\* The reader under from_slice: one item read at position i of data, giving
\* the value and the position after it, or a failure. Arguments wider than
\* one byte, indefinite lengths and the break byte are failures here: the
\* inputs below hold none of the former, and a break outside an indefinite
\* item is a syntax error.
ReadFail == [ok |-> FALSE, value |-> Value_Null, next |-> 0]
RECURSIVE read_item(_, _)
RECURSIVE read_items(_, _, _, _)
read_item(data, i) ==
    IF i > Len(data) THEN ReadFail
    ELSE
        LET major == data[i] \div 32
            info == data[i] % 32
            wide == info = 24
            arg == IF info < 24 THEN info ELSE IF i + 1 <= Len(data) THEN data[i + 1] ELSE 0
            body == IF wide THEN i + 2 ELSE i + 1
        IN  IF info > 24 \/ (wide /\ i + 1 > Len(data)) THEN ReadFail
            ELSE CASE major = 0 -> [ok |-> TRUE, value |-> Value_Integer(arg), next |-> body]
                   [] major = 2 ->
                        IF body + arg - 1 > Len(data) THEN ReadFail
                        ELSE [ok |-> TRUE, next |-> body + arg,
                              value |-> Value_Bytes(SubSeq(data, body, body + arg - 1))]
                   [] major = 4 ->
                        LET r == read_items(data, body, arg, <<>>)
                        IN  IF r.ok THEN [ok |-> TRUE, value |-> Value_Array(r.items), next |-> r.next]
                            ELSE ReadFail
                   [] major = 5 ->
                        LET r == read_items(data, body, 2 * arg, <<>>)
                        IN  IF r.ok THEN [ok |-> TRUE, value |-> Value_Map(r.items), next |-> r.next]
                            ELSE ReadFail
                   [] major = 6 ->
                        LET r == read_item(data, body)
                        IN  IF r.ok THEN [ok |-> TRUE, value |-> Value_Tag(arg, r.value), next |-> r.next]
                            ELSE ReadFail
                   [] major = 7 /\ ~wide ->
                        [ok |-> TRUE, value |-> Value("Simple", arg, <<>>, <<>>), next |-> body]
                   [] OTHER -> ReadFail
read_items(data, i, count, acc) ==
    IF count = 0 THEN [ok |-> TRUE, items |-> acc, next |-> i]
    ELSE LET r == read_item(data, i)
         IN  IF r.ok THEN read_items(data, r.next, count - 1, Append(acc, r.value))
             ELSE [ok |-> FALSE, items |-> acc, next |-> 0]

\* Results of the decoders: a value, or a CborError.
DecOk(x) == [ok |-> TRUE, value |-> x, err |-> "none"]
DecErr(e) == [ok |-> FALSE, value |-> None, err |-> e]

\* AsCborValue::from_slice: one item, and nothing after it.
read_value(data) ==
    LET r == read_item(data, 1)
    IN  IF ~r.ok THEN DecErr("DecodeFailed")
        ELSE IF r.next <= Len(data) THEN DecErr("ExtraneousData")
        ELSE DecOk(r.value)

\* cbor_type_error(&value, want)
cbor_type_error(value, want) == DecErr("UnexpectedItem")

\* Version::from_cbor_value (derived for the enum): the integer of a variant.
Version_from_cbor_value(value) ==
    IF value.kind # "Integer" THEN cbor_type_error(value, "int")
    ELSE IF value.n = 0 THEN DecOk("V1")
    ELSE DecErr("NonEnumValue")

\* coset::CoseEncrypt0::from_cbor_value: the array [protected, unprotected,
\* ciphertext].
coset_CoseEncrypt0_from_cbor_value(value) ==
    IF /\ value.kind = "Array"
       /\ value.n = 3
       /\ value.items[1].kind = "Bytes"
       /\ value.items[2].kind = "Map"
       /\ value.items[3].kind = "Bytes"
    THEN DecOk([protected |-> value.items[1].bytes, ciphertext |-> value.items[3].bytes])
    ELSE DecErr("UnexpectedItem")

\* coset::CoseEncrypt0::TAG
CoseEncrypt0_TAG == 16

\* The same without the requirement on the tag number.
CoseEncrypt0_from_cbor_value_any_tag(value) ==
    IF value.kind = "Tag" THEN coset_CoseEncrypt0_from_cbor_value(value.items[1])
    ELSE cbor_type_error(value, "tag 16")

\* <coset::CoseEncrypt0 as AsCborValue>::from_cbor_value
CoseEncrypt0_from_cbor_value(value) ==
    IF value.kind = "Tag" /\ value.n = CoseEncrypt0_TAG
    THEN coset_CoseEncrypt0_from_cbor_value(value.items[1])
    ELSE IF value.kind = "Tag" THEN DecErr("UnexpectedItem")
    ELSE cbor_type_error(value, "tag 16")

\* Length of key_derivation_input.
KdiLen == 32

\* KeyCharacteristics::from_cbor_value (derived): [security_level,
\* authorizations]; the security levels are the integers of the enum.
SecurityLevelOf(n) == IF n = 1 THEN "TrustedEnvironment" ELSE IF n = 2 THEN "Strongbox" ELSE "Software"
KeyCharacteristics_from_cbor_value(value) ==
    IF /\ value.kind = "Array"
       /\ value.n = 2
       /\ value.items[1].kind = "Integer"
       /\ value.items[1].n <= 2
       /\ value.items[2].kind = "Array"
       /\ value.items[2].n = 0
    THEN DecOk(KeyCharacteristics(SecurityLevelOf(value.items[1].n), <<>>))
    ELSE DecErr("UnexpectedItem")

\* EncryptedKeyBlobV1::from_cbor_value (derived for the struct): the array
\* of the four fields in declaration order.
EncryptedKeyBlobV1_from_cbor_value(value) ==
    IF value.kind # "Array" \/ value.n # 4 THEN cbor_type_error(value, "arr")
    ELSE
        LET f == value.items
            chars == IF f[1].kind = "Array"
                     THEN [i \in 1..f[1].n |-> KeyCharacteristics_from_cbor_value(f[1].items[i])]
                     ELSE <<>>
            ekm == CoseEncrypt0_from_cbor_value(f[3])
        IN  IF f[1].kind # "Array" \/ \E i \in 1..Len(chars) : ~chars[i].ok
            THEN DecErr("UnexpectedItem")
            ELSE IF f[2].kind # "Bytes" \/ f[2].n # KdiLen THEN DecErr("UnexpectedItem")
            ELSE IF ~ekm.ok THEN ekm
            ELSE IF ~(f[4].kind = "Array" /\ f[4].n <= 1
                      /\ \A i \in 1..f[4].n : f[4].items[i].kind = "Integer")
            THEN DecErr("UnexpectedItem")
            ELSE DecOk(EncryptedKeyBlobV1([i \in 1..Len(chars) |-> chars[i].value],
                                          f[2].bytes, ekm.value,
                                          IF f[4].n = 1 THEN Some(f[4].items[1].n) ELSE None))

\* Vec::remove(index): the element and the rest; it panics when index is
\* out of bounds.
Vec_remove(a, index) ==
    IF index >= Len(a) THEN [panic |-> TRUE, elem |-> Value_Null, rest |-> a]
    ELSE [panic |-> FALSE, elem |-> a[index + 1],
          rest |-> SubSeq(a, 1, index) \o SubSeq(a, index + 2, Len(a))]

\* What from_cbor_value does once it holds an array a: the two removals, the
\* version, the inner keyblob. removals lists the length of the array at
\* each remove.
from_cbor_array(a) ==
    LET r1 == Vec_remove(a, 1)
        r0 == Vec_remove(r1.rest, 0)
        version == Version_from_cbor_value(r0.elem)
        inner == EncryptedKeyBlobV1_from_cbor_value(r1.elem)
    IN  IF r1.panic THEN [panic |-> TRUE, result |-> DecErr("none"), removals |-> <<Len(a)>>]
        ELSE IF r0.panic
        THEN [panic |-> TRUE, result |-> DecErr("none"), removals |-> <<Len(a), Len(r1.rest)>>]
        ELSE [panic |-> FALSE, removals |-> <<Len(a), Len(r1.rest)>>,
              result |-> IF ~version.ok THEN version ELSE inner]

\* The same for every array, whatever its length.
EncryptedKeyBlob_from_cbor_value_any_len(value) ==
    IF value.kind = "Array" THEN from_cbor_array(value.items)
    ELSE [panic |-> FALSE, result |-> cbor_type_error(value, "arr len 2"), removals |-> <<>>]

\* EncryptedKeyBlob::from_cbor_value
EncryptedKeyBlob_from_cbor_value(value) ==
    IF value.kind = "Array" /\ Len(value.items) = 2 THEN from_cbor_array(value.items)
    ELSE [panic |-> FALSE, result |-> cbor_type_error(value, "arr len 2"), removals |-> <<>>]

\* EncryptedKeyBlob::new(data): from_slice, every CborError reported as
\* InvalidKeyBlob.
EncryptedKeyBlob_new(data) ==
    LET v == read_value(data)
        d == IF v.ok THEN EncryptedKeyBlob_from_cbor_value(v.value)
             ELSE [panic |-> FALSE, result |-> v, removals |-> <<>>]
    IN  [panic |-> d.panic,
         result |-> IF d.panic THEN "abort" ELSE IF d.result.ok THEN "Ok" ELSE "InvalidKeyBlob",
         keyblob |-> IF ~d.panic /\ d.result.ok THEN Some(d.result.value) ELSE None,
         value |-> IF v.ok THEN Some(v.value) ELSE None,
         cbor_error |-> IF d.panic THEN "none" ELSE d.result.err,
         removals |-> d.removals]

\* Bounds of the inputs: the largest version number, the largest tag number
\* above the COSE_Encrypt0 tag, and the longest outer array.
MaxVersion == 1
MaxTagOffset == 1
MaxOuterLen == 3

\* CBOR values the untrusted bytes are built from.
CoseValue == Value_Array(<<Value_Bytes(<<1>>), Value_Map(<<>>), Value_Bytes(<<7, 7>>)>>)
EkmValues ==
    {Value_Tag(t, CoseValue) : t \in CoseEncrypt0_TAG..(CoseEncrypt0_TAG + MaxTagOffset)}
        \cup {CoseValue, Value_Bytes(<<7, 7>>), Value_Tag(CoseEncrypt0_TAG, Value_Integer(0))}
CharsValues ==
    {Value_Array(<<>>),
     Value_Array(<<Value_Array(<<Value_Integer(1), Value_Array(<<>>)>>)>>),
     Value_Array(<<Value_Array(<<Value_Integer(1), Value_Array(<<>>)>>),
                   Value_Array(<<Value_Integer(1), Value_Array(<<>>)>>)>>)}
InnerValues ==
    {Value_Array(<<c, Value_Bytes(Zeros(k)), e, s>>) :
        c \in CharsValues, k \in {KdiLen - 1, KdiLen}, e \in EkmValues,
        s \in {Value_Array(<<>>), Value_Array(<<Value_Integer(1)>>)}}
        \cup {Value_Integer(0)}
VersionValues == {Value_Integer(n) : n \in 0..MaxVersion} \cup {Value_Bytes(<<>>)}
OuterItems ==
    {<<v, i>> \o [j \in 1..(MaxOuterLen - 2) |-> Value_Integer(0)] :
        v \in VersionValues, i \in InnerValues}
KeyblobValues ==
    {Value_Array(SubSeq(a, 1, k)) : a \in OuterItems, k \in 0..MaxOuterLen}
        \cup {Value_Integer(0), Value_Null} \cup InnerValues
\* The untrusted bytes: the encodings of those values, whole, cut short by
\* one byte and followed by one more byte; the empty input, and buffers of
\* 0x00 and of 0xFF.
KeyblobBytes ==
    LET enc == {cbor_bytes(v) : v \in KeyblobValues}
    IN  enc \cup {SubSeq(b, 1, Len(b) - 1) : b \in enc} \cup {Append(b, 0) : b \in enc}
            \cup {<<>>, Zeros(4), <<255, 255, 255, 255>>}

\* A call of EncryptedKeyBlob::new on untrusted bytes, as the fuzz target
\* makes it.
EncryptedKeyBlobNewReq(data) ==
    /\ kb_last.op = "none"
    /\ kb_last' = [op |-> "new", data |-> data, ret |-> EncryptedKeyBlob_new(data)]
    /\ UNCHANGED <<ta_vars, uc_vars, sdd_present, sdd_slots, drop_log, kb_issued, wire>>

EncryptedKeyBlobNew == \E data \in KeyblobBytes : EncryptedKeyBlobNewReq(data)

\* A call of derive_kek, as encrypt and decrypt make it.
DeriveKekReq(root_key, key_derivation_input, characteristics, hidden, sdd) ==
    /\ kb_last.op = "none"
    /\ kb_last' = [op |-> "derive_kek", root_key |-> root_key,
                   key_derivation_input |-> key_derivation_input,
                   characteristics |-> characteristics, hidden |-> hidden, sdd |-> sdd,
                   key |-> derive_kek(root_key, key_derivation_input, characteristics,
                                      hidden, sdd)]
    /\ UNCHANGED <<ta_vars, uc_vars, sdd_present, sdd_slots, drop_log, kb_issued, wire>>

DeriveKek ==
    \E root_key \in RootKeys, key_derivation_input \in 1..MaxIssued,
       p \in PlaintextKeyBlobs, hidden \in Hiddens,
       sdd \in {None} \cup {Some(SecureDeletionData(n)) : n \in 1..MaxSecret} :
        DeriveKekReq(root_key, key_derivation_input, p.characteristics, hidden, sdd)

NextCodec == EncryptedKeyBlobNew \/ DeriveKek

SpecCodec == InitKeyblob /\ [][NextCodec]_vars

(* ---- claims ---- *)

\* The value is the array [0, inner] whose inner array holds a
\* COSE_Encrypt0 under tag 16 as its third field.
WellShaped(value) ==
    /\ value.kind = "Array"
    /\ value.n = 2
    /\ value.items[1] = Value_Integer(0)
    /\ value.items[2].kind = "Array"
    /\ value.items[2].n = 4
    /\ value.items[2].items[3].kind = "Tag"
    /\ value.items[2].items[3].n = 16

\* C23: EncryptedKeyBlob decoding gives a keyblob only for a 2-element array
\* [version, inner] whose version is V1 (0) and whose inner
\* encrypted_key_material is wrapped in CBOR tag 16; every other outer shape,
\* version, untagged or differently tagged material is InvalidKeyBlob and no
\* keyblob value.
C23_DecodeShape ==
    kb_last.op = "new" =>
        /\ kb_last.ret.result \in {"Ok", "InvalidKeyBlob"}
        /\ kb_last.ret.result = "Ok" <=> kb_last.ret.keyblob # None
        /\ kb_last.ret.keyblob # None =>
              /\ kb_last.ret.value # None
              /\ WellShaped(Unwrap(kb_last.ret.value))
              /\ Unwrap(kb_last.ret.keyblob).version = "V1"
        /\ (kb_last.ret.value # None /\ ~WellShaped(Unwrap(kb_last.ret.value))) =>
              kb_last.ret.result = "InvalidKeyBlob"

C23_Witness ==
    /\ kb_last.op = "new"
    /\ kb_last.ret.result = "Ok"
    /\ Unwrap(kb_last.ret.keyblob).encrypted_key_material.ciphertext = <<7, 7>>


\* C24: decoding untrusted keyblob bytes is total: every call returns a
\* keyblob or a typed error and never aborts, and the element removals of
\* from_cbor_value are made on an array of exactly two elements: the first
\* on both, the second on the one left.
C24_DecodeTotal ==
    kb_last.op = "new" =>
        /\ ~kb_last.ret.panic
        /\ kb_last.ret.result \in {"Ok", "InvalidKeyBlob"}
        /\ kb_last.ret.removals \in {<<>>, <<2, 1>>}
        /\ kb_last.ret.removals # <<>> =>
              /\ kb_last.ret.value # None
              /\ Unwrap(kb_last.ret.value).kind = "Array"
              /\ Unwrap(kb_last.ret.value).n = 2

C24_Witness ==
    /\ kb_last.op = "new"
    /\ kb_last.ret.removals = <<2, 1>>
    /\ kb_last.ret.result = "InvalidKeyBlob"
    /\ kb_last.ret.cbor_error = "NonEnumValue"

\* The HKDF call behind the key derive_kek returned.
KekHkdf == kb_last.key[2]

\* C25: derive_kek builds the HKDF info as key_derivation_input, then the
\* encoding of characteristics, then the encoding of hidden, then the
\* encoding of the secure-deletion data, in that order, the last chunk only
\* when secure-deletion data is given; the salt is empty, the input keying
\* material is the root key, and the result is an AES-256 key (32 bytes of
\* HKDF output) fixed by the inputs.
C25_KekInfoOrder ==
    kb_last.op = "derive_kek" =>
        /\ kb_last.key[1] = "Aes256"
        /\ KekHkdf[1] = "hkdf-sha256"
        /\ KekHkdf[2] = <<>>
        /\ KekHkdf[3] = kb_last.root_key
        /\ Len(KekHkdf[4]) = IF kb_last.sdd = None THEN 3 ELSE 4
        /\ KekHkdf[4][1] = kb_last.key_derivation_input
        /\ KekHkdf[4][2] = Cbor(kb_last.characteristics)
        /\ KekHkdf[4][3] = Cbor(kb_last.hidden)
        /\ kb_last.sdd # None => KekHkdf[4][4] = Cbor(Unwrap(kb_last.sdd))

C25_Witness ==
    /\ kb_last.op = "derive_kek"
    /\ kb_last.sdd # None
    /\ kb_last.hidden # <<>>
    /\ Len(kb_last.characteristics) = 2
    /\ Len(KekHkdf[4]) = 4

\* The integer a big-endian two's complement field stands for, when it is
\* within three bytes of zero; 2^24, which no such integer is, otherwise.
be_value(b) ==
    LET w == Len(b)
        low == 65536 * b[w - 2] + 256 * b[w - 1] + b[w]
    IN  IF \A i \in 1..(w - 3) : b[i] = 0 THEN low
        ELSE IF \A i \in 1..(w - 3) : b[i] = 255 THEN low - 16777216
        ELSE 16777216
Reversed(b) == [i \in 1..Len(b) |-> b[Len(b) + 1 - i]]
\* A field in the byte order of the build.
ne_value(b, endian) == IF endian = "big" THEN be_value(b) ELSE be_value(Reversed(b))

MacInput == imp_trace.result

\* C26: hardware_auth_token_mac_input produces exactly 37 bytes: the version
\* byte 0, challenge, user_id and authenticator_id as 8 bytes each in the
\* byte order of the build, authenticator_type as 4 big-endian bytes and the
\* timestamp in milliseconds as 8 big-endian bytes; the mac of the token has
\* no part in it, so tokens equal in the other fields give the same bytes.
C26_AuthTokenMacInput ==
    imp_trace.op = "hardware_auth_token_mac_input" =>
        /\ Len(MacInput) = 37
        /\ \A i \in 1..37 : MacInput[i] \in 0..255
        /\ MacInput[1] = 0
        /\ ne_value(SubSeq(MacInput, 2, 9), imp_trace.endian) = imp_trace.token.challenge
        /\ ne_value(SubSeq(MacInput, 10, 17), imp_trace.endian) = imp_trace.token.user_id
        /\ ne_value(SubSeq(MacInput, 18, 25), imp_trace.endian)
              = imp_trace.token.authenticator_id
        /\ be_value(SubSeq(MacInput, 26, 29)) = imp_trace.token.authenticator_type
        /\ be_value(SubSeq(MacInput, 30, 37)) = imp_trace.token.timestamp
        /\ \A m \in AuthTokenMacs :
              hardware_auth_token_mac_input([imp_trace.token EXCEPT !.mac = m],
                                            imp_trace.endian) = MacInput

C26_Witness ==
    /\ imp_trace.op = "hardware_auth_token_mac_input"
    /\ imp_trace.endian = "little"
    /\ imp_trace.token.challenge = 258
    /\ imp_trace.token.authenticator_type = -1
    /\ imp_trace.token.mac # <<>>
    /\ SubSeq(MacInput, 1, 9) = <<0, 2, 1, 0, 0, 0, 0, 0, 0>>
    /\ SubSeq(MacInput, 26, 29) = <<255, 255, 255, 255>>

-----------------------------------------------------------------------------
(* Remote key provisioning: rpc_device_info and the attestation IDs *)

\* What the device's RetrieveAttestationIds::get returns: the IDs, or an
\* error.
ProviderResults == {None} \cup {Some(ids) : ids \in AttestationIdInfo}

\* get_attestation_ids: the IDs stored, fetched first from the device's
\* implementation when none are stored and there is one; `got` is what the
\* implementation returns if asked.
get_attestation_ids(got) ==
    IF attestation_id_info = None /\ dev_attest_ids /\ got # None THEN got
    ELSE attestation_id_info

\* A call of get_attestation_ids, as the attestation of a key makes it.
GetAttestationIdsReq(got) ==
    /\ imp_trace.op = "none"
    /\ attestation_id_info' = get_attestation_ids(got)
    /\ UNCHANGED <<security_level, in_early_boot, boot_info, rot_data, hal_info, hmac_key,
                   rot_challenge, dev_attest_ids, lock_vars, rsp, note, uc_vars, kb_vars,
                   wire>>

GetAttestationIds == \E got \in ProviderResults : GetAttestationIdsReq(got)

\* The bytes of the ASCII letters the map keys are written in.
Ascii ==
    [a |-> 97, b |-> 98, c |-> 99, d |-> 100, e |-> 101, f |-> 102, g |-> 103, h |-> 104,
     i |-> 105, j |-> 106, k |-> 107, l |-> 108, m |-> 109, n |-> 110, o |-> 111,
     p |-> 112, q |-> 113, r |-> 114, s |-> 115, t |-> 116, u |-> 117, v |-> 118,
     w |-> 119, x |-> 120, y |-> 121, z |-> 122, us |-> 95]
\* The CBOR encoding of a text string given letter by letter ("us" is the
\* underscore).
cbor_text(letters) == cbor_head(3, Len(letters)) \o [i \in 1..Len(letters) |-> Ascii[letters[i]]]

\* The keys of the map in lexicographic order whatever their length.
DeviceInfoKeysLexicographic ==
    <<"boot_patch_level", "bootloader_state", "brand", "device", "fused", "manufacturer",
      "model", "os_version", "product", "security_level", "system_patch_level",
      "vb_state", "vbmeta_digest", "vendor_patch_level", "version">>

\* The keys of the cbor!({...}) map of rpc_device_info, in the order written.
DeviceInfoKeys ==
    <<"brand", "fused", "model", "device", "product", "version", "vb_state", "os_version",
      "manufacturer", "vbmeta_digest", "security_level", "boot_patch_level",
      "bootloader_state", "system_patch_level", "vendor_patch_level">>

\* The letters of each key.
KeyLetters ==
    [brand |-> <<"b", "r", "a", "n", "d">>,
     fused |-> <<"f", "u", "s", "e", "d">>,
     model |-> <<"m", "o", "d", "e", "l">>,
     device |-> <<"d", "e", "v", "i", "c", "e">>,
     product |-> <<"p", "r", "o", "d", "u", "c", "t">>,
     version |-> <<"v", "e", "r", "s", "i", "o", "n">>,
     vb_state |-> <<"v", "b", "us", "s", "t", "a", "t", "e">>,
     os_version |-> <<"o", "s", "us", "v", "e", "r", "s", "i", "o", "n">>,
     manufacturer |-> <<"m", "a", "n", "u", "f", "a", "c", "t", "u", "r", "e", "r">>,
     vbmeta_digest |-> <<"v", "b", "m", "e", "t", "a", "us", "d", "i", "g", "e", "s", "t">>,
     security_level |->
        <<"s", "e", "c", "u", "r", "i", "t", "y", "us", "l", "e", "v", "e", "l">>,
     boot_patch_level |->
        <<"b", "o", "o", "t", "us", "p", "a", "t", "c", "h", "us", "l", "e", "v", "e", "l">>,
     bootloader_state |->
        <<"b", "o", "o", "t", "l", "o", "a", "d", "e", "r", "us", "s", "t", "a", "t", "e">>,
     system_patch_level |->
        <<"s", "y", "s", "t", "e", "m", "us", "p", "a", "t", "c", "h", "us", "l", "e", "v",
          "e", "l">>,
     vendor_patch_level |->
        <<"v", "e", "n", "d", "o", "r", "us", "p", "a", "t", "c", "h", "us", "l", "e", "v",
          "e", "l">>]

\* String::from_utf8_lossy of an ID.
from_utf8_lossy(id) == <<"utf8", id>>

\* RpcInfo: the version of the RKP HAL and whether the device is fused.
RpcInfo == [version : {2, 3}, fused : BOOLEAN]

\* rpc_device_info: ids is what get_attestation_ids returned.
rpc_device_info(ids, rpc_info) ==
    IF ids = None \/ boot_info = None \/ hal_info = None
    THEN [err |-> "UnknownError", map |-> <<>>]
    ELSE IF security_level \notin {"TrustedEnvironment", "Strongbox"}
    THEN [err |-> "UnknownError", map |-> <<>>]
    ELSE
        LET b == Unwrap(boot_info)
            h == Unwrap(hal_info)
            a == Unwrap(ids)
            value ==
                [brand |-> from_utf8_lossy(a.brand),
                 fused |-> IF rpc_info.fused THEN 1 ELSE 0,
                 model |-> from_utf8_lossy(a.model),
                 device |-> from_utf8_lossy(a.device),
                 product |-> from_utf8_lossy(a.product),
                 version |-> rpc_info.version,
                 vb_state |-> CASE b.verified_boot_state = "Verified" -> "green"
                                [] b.verified_boot_state = "SelfSigned" -> "yellow"
                                [] b.verified_boot_state = "Unverified" -> "orange"
                                [] OTHER -> "red",
                 os_version |-> h.os_version,
                 manufacturer |-> from_utf8_lossy(a.manufacturer),
                 vbmeta_digest |-> <<"bytes", b.verified_boot_hash>>,
                 security_level |-> IF security_level = "TrustedEnvironment"
                                    THEN "tee" ELSE "strongbox",
                 boot_patch_level |-> b.boot_patchlevel,
                 bootloader_state |-> IF b.device_boot_locked THEN "locked" ELSE "unlocked",
                 system_patch_level |-> h.os_patchlevel,
                 vendor_patch_level |-> h.vendor_patchlevel]
        IN  [err |-> "Ok",
             map |-> [i \in 1..Len(DeviceInfoKeys) |->
                        [name |-> DeviceInfoKeys[i],
                         key |-> cbor_text(KeyLetters[DeviceInfoKeys[i]]),
                         value |-> value[DeviceInfoKeys[i]]]]]

\* A call of rpc_device_info, as generate_cert_req makes it.
RpcDeviceInfoReq(got, rpc_info) ==
    /\ imp_trace.op = "none"
    /\ attestation_id_info' = get_attestation_ids(got)
    /\ imp_trace' = [op |-> "rpc_device_info", rpc_info |-> rpc_info,
                     ids |-> get_attestation_ids(got),
                     ret |-> rpc_device_info(get_attestation_ids(got), rpc_info)]
    /\ UNCHANGED <<security_level, in_early_boot, boot_info, rot_data, hal_info, hmac_key,
                   rot_challenge, dev_attest_ids, imp_clock, device_locked, rsp, note,
                   uc_vars, kb_vars, wire>>

RpcDeviceInfo ==
    \E got \in ProviderResults, rpc_info \in RpcInfo : RpcDeviceInfoReq(got, rpc_info)

RkpSetBootInfo == imp_trace.op = "none" /\ SetBootInfo
RkpSetHalInfo == imp_trace.op = "none" /\ SetHalInfo
SetAttestationIdsReq(ids) == process_req_SetAttestationIds(ids) /\ UNCHANGED wire
RkpSetAttestationIds ==
    imp_trace.op = "none" /\ \E ids \in AttestationIdInfo : SetAttestationIdsReq(ids)

\* A TEE or a StrongBox, with or without an attestation ID implementation
\* of its own.
InitRkp ==
    /\ \E level \in SecurityLevels, attest_ids \in BOOLEAN :
            KeyMintTa_new(level, attest_ids, FALSE)
    /\ UcIdle
    /\ KbIdle

NextRkp ==
    \/ RkpSetBootInfo
    \/ RkpSetHalInfo
    \/ RkpSetAttestationIds
    \/ GetAttestationIds
    \/ RpcDeviceInfo

SpecRkp == InitRkp /\ [][NextRkp]_vars

(* ---- claims ---- *)

\* Byte-wise lexicographic order of two byte strings of the same length.
LexLess(x, y) ==
    \E i \in 1..Len(x) : x[i] < y[i] /\ \A j \in 1..(i - 1) : x[j] = y[j]
\* RFC 7049 canonical order of two encoded keys.
CanonicalLess(x, y) == Len(x) < Len(y) \/ (Len(x) = Len(y) /\ LexLess(x, y))

DeviceInfoMap == imp_trace.ret.map

\* C27: the 15 map keys of the DeviceInfo that rpc_device_info emits are in
\* strictly increasing RFC 7049 canonical order (shorter encoded key first,
\* byte-wise lexicographic among keys of equal length), and rpc_device_info
\* fails with UnknownError and emits no map when the attestation IDs,
\* boot_info or hal_info are not available.
C27_DeviceInfoKeyOrder ==
    imp_trace.op = "rpc_device_info" =>
        /\ imp_trace.ret.err = "Ok"
              <=> (attestation_id_info # None /\ boot_info # None /\ hal_info # None)
        /\ imp_trace.ret.err # "Ok" =>
              (imp_trace.ret.err = "UnknownError" /\ DeviceInfoMap = <<>>)
        /\ imp_trace.ret.err = "Ok" =>
              /\ Len(DeviceInfoMap) = 15
              /\ \A i \in 1..14 : CanonicalLess(DeviceInfoMap[i].key, DeviceInfoMap[i + 1].key)

C27_Witness ==
    /\ imp_trace.op = "rpc_device_info"
    /\ imp_trace.ret.err = "Ok"
    /\ dev_attest_ids
    /\ DeviceInfoMap[12].name = "boot_patch_level"
    /\ DeviceInfoMap[13].name = "bootloader_state"
    /\ DeviceInfoMap[13].value = "unlocked"
    /\ DeviceInfoMap[7].value = "orange"

\* One step of set_attestation_ids with the given IDs.
SetAttestationIdsStep(ids) == SetAttestationIdsReq(ids)

-----------------------------------------------------------------------------
(* Keyblobs that arrive as bytes: EncryptedKeyBlob::new, then decrypt *)

\* Characteristics a keyblob may have been sealed with: none, one entry, two
\* entries of one security level, two entries of different levels. The
\* authorizations are empty.
ExternalCharacteristics ==
    << <<>>,
       <<KeyCharacteristics("TrustedEnvironment", <<>>)>>,
       <<KeyCharacteristics("TrustedEnvironment", <<>>),
         KeyCharacteristics("TrustedEnvironment", <<>>)>>,
       <<KeyCharacteristics("TrustedEnvironment", <<>>),
         KeyCharacteristics("Strongbox", <<>>)>> >>

\* KeyCharacteristics::to_cbor_value (derived), for empty authorizations.
KeyCharacteristics_to_cbor_value(kc) ==
    Value_Array(<<Value_Integer(CHOOSE n \in 0..2 : SecurityLevelOf(n) = kc.security_level),
                  Value_Array(<<>>)>>)
Characteristics_to_cbor_value(chars) ==
    Value_Array([i \in 1..Len(chars) |-> KeyCharacteristics_to_cbor_value(chars[i])])

\* The encoded protected header of encrypt: the map {1: 3}, algorithm
\* A256GCM.
ProtectedA256GCMBytes == <<161, 1, 3>>
protected_from_slice(bytes) ==
    IF bytes = ProtectedA256GCMBytes THEN ProtectedA256GCM ELSE <<"protected", bytes>>

\* The key_derivation_input of the keyblobs that arrive.
ExternalKdi == Zeros(KdiLen)

\* The ciphertext bytes of a keyblob that arrives are written <<r, c>>: they
\* stand for the ciphertext encrypt gives, under root key r and no hidden
\* parameters, to a PlaintextKeyBlob whose characteristics are the c-th of
\* ExternalCharacteristics.
SealedBy(r, c) ==
    encrypt(FALSE, <<>>, r,
            PlaintextKeyBlob(ExternalCharacteristics[c], [alg |-> "Aes", key |-> 15]),
            <<>>, Env("none", FALSE, 0, 0, ExternalKdi))
ciphertext_from_bytes(bytes) ==
    IF Len(bytes) = 2 /\ bytes[1] \in RootKeys /\ bytes[2] \in 1..Len(ExternalCharacteristics)
    THEN Unwrap(SealedBy(bytes[1], bytes[2]).keyblob).encrypted_key_material.ciphertext
    ELSE Some(<<"bytes", bytes>>)

\* EncryptedKeyBlob::to_cbor_value of a keyblob whose characteristics field
\* holds chars, sealed as <<r, c>> says.
ExternalKeyblobValue(chars, r, c, slot) ==
    Value_Array(<<Value_Integer(0),
                  Value_Array(<<Characteristics_to_cbor_value(chars),
                                Value_Bytes(ExternalKdi),
                                Value_Tag(CoseEncrypt0_TAG,
                                          Value_Array(<<Value_Bytes(ProtectedA256GCMBytes),
                                                        Value_Map(<<>>),
                                                        Value_Bytes(<<r, c>>)>>)),
                                slot>>)>>)

\* The keyblob bytes that arrive: every characteristics field over every
\* sealing, with and without a secure deletion slot.
ExternalKeyblobBytes ==
    {cbor_bytes(ExternalKeyblobValue(ExternalCharacteristics[f], r, c, slot)) :
        f \in 1..Len(ExternalCharacteristics), r \in RootKeys,
        c \in 1..Len(ExternalCharacteristics),
        slot \in {Value_Array(<<>>), Value_Array(<<Value_Integer(1)>>)}}

\* The decoded keyblob as decrypt takes it.
external_keyblob(decoded) ==
    EncryptedKeyBlobV1(decoded.characteristics, decoded.key_derivation_input,
                       [protected |-> protected_from_slice(decoded.encrypted_key_material.protected),
                        ciphertext |->
                            ciphertext_from_bytes(decoded.encrypted_key_material.ciphertext)],
                       decoded.secure_deletion_slot)

\* keyblob_parse_decrypt without the checks of the TA: EncryptedKeyBlob::new
\* on the bytes, then decrypt with no hidden parameters.
KeyblobParseDecryptReq(key_blob, root_key) ==
    LET parsed == EncryptedKeyBlob_new(key_blob)
        r == IF parsed.result = "Ok"
             THEN decrypt(sdd_present, sdd_slots, root_key,
                          external_keyblob(Unwrap(parsed.keyblob)), <<>>, "none")
             ELSE [result |-> parsed.result, out |-> None, trace |-> <<>>]
    IN  /\ kb_last.op = "none"
        /\ kb_last' = [op |-> "parse_decrypt", key_blob |-> key_blob, root_key |-> root_key,
                       parsed |-> parsed.keyblob, result |-> r.result, out |-> r.out]
        /\ UNCHANGED <<ta_vars, uc_vars, sdd_present, sdd_slots, drop_log, kb_issued, wire>>

KeyblobParseDecrypt ==
    \E key_blob \in ExternalKeyblobBytes, root_key \in RootKeys :
        KeyblobParseDecryptReq(key_blob, root_key)

NextExternal == KeyblobParseDecrypt

SpecExternal == InitKeyblob /\ [][NextExternal]_vars

(* ---- claims ---- *)

\* No two entries of chars have the same security level.
DistinctLevels(chars) ==
    \A i, j \in 1..Len(chars) : i # j => chars[i].security_level # chars[j].security_level

\* C28: for a given security level a keyblob's characteristics has at most
\* one entry: every keyblob that EncryptedKeyBlob decoding accepts and
\* decrypt returns, one built from bytes that arrive from outside included,
\* has no two KeyCharacteristics entries with the same security level.
C28_OneEntryPerLevel ==
    (kb_last.op = "parse_decrypt" /\ kb_last.result = "Ok") =>
        /\ DistinctLevels(Unwrap(kb_last.parsed).characteristics)
        /\ DistinctLevels(Unwrap(kb_last.out).characteristics)

\* Keyblobs whose characteristics have one entry per level are decoded and
\* decrypted; so are, with the code as it is, the others.
C28_DecryptedDistinct ==
    /\ kb_last.op = "parse_decrypt"
    /\ kb_last.result = "Ok"
    /\ Len(Unwrap(kb_last.out).characteristics) = 2
    /\ DistinctLevels(Unwrap(kb_last.out).characteristics)

-----------------------------------------------------------------------------
(* Claims about encrypt and its manager, checked under SpecKeyblob *)

\* C29: as the doc comment of encrypt says, if sdd_mgr is provided a secure
\* deletion slot is embedded into the keyblob: every successful encrypt
\* with a manager returns a keyblob whose secure_deletion_slot is present.
C29_SlotEmbeddedWithManager ==
    (kb_last.op = "encrypt" /\ kb_last.result = "Ok" /\ sdd_present) =>
        Unwrap(kb_last.keyblob).secure_deletion_slot # None

-----------------------------------------------------------------------------
(* More claims about the use-count table, checked under SpecUseCount *)

\* C33: a failing update_use_count leaves the use_count table unchanged:
\* when the call returns KeyMaxOpsExceeded or TooManyOperations no entry was
\* allocated and no count was modified, for every key ID and every max_uses,
\* 0 included.
C33_FailureLeavesTable ==
    [][uc_last'.result \in {"KeyMaxOpsExceeded", "TooManyOperations"}
           => use_count' = use_count]_vars

\* C34: after any sequence of update_use_count calls no two occupied entries
\* of the use_count table hold the same key ID, an occupied entry is never
\* freed or moved (it keeps its index and its key ID), and the count of an
\* entry never decreases.
C34_UseCountEntriesStable ==
    /\ [](\A i, j \in 1..MAX_USE_COUNTED_KEYS :
              (use_count[i] # None /\ use_count[j] # None /\ i # j)
                  => Unwrap(use_count[i]).key_id # Unwrap(use_count[j]).key_id)
    /\ [][\A i \in 1..MAX_USE_COUNTED_KEYS :
              use_count[i] # None =>
                  /\ use_count'[i] # None
                  /\ Unwrap(use_count'[i]).key_id = Unwrap(use_count[i]).key_id
                  /\ Unwrap(use_count'[i]).count >= Unwrap(use_count[i]).count]_vars

\* C34 witness: three entries are occupied, the first one has been counted
\* up twice, and a further call for its key ID has failed at the limit.
C34_Witness ==
    /\ use_count[1] # None /\ use_count[2] # None /\ use_count[3] # None
    /\ Unwrap(use_count[1]).count = 2
    /\ uc_last.key_id = Unwrap(use_count[1]).key_id
    /\ uc_last.result = "KeyMaxOpsExceeded"

-----------------------------------------------------------------------------
(* More claims about the version checks, checked under SpecVersions *)

\* The positions of the differing fields that ask for an upgrade: a value
\* below the latched one, or any non-zero OsVersion when the latched
\* os_version is 0.
OldFields ==
    {i \in Differing :
        \/ LocalAuths[i][2] < Unwrap(CurrentOf(LocalAuths[i]))
        \/ LocalAuths[i][1] = "OsVersion" /\ OsVersionZero}

\* The positions of the fields above their latched value.
GreaterFields ==
    {i \in Differing : LocalAuths[i][2] > Unwrap(CurrentOf(LocalAuths[i]))}

\* The result of the version checks for the same fields in the opposite
\* order.
ReversedResult == check_params(Reversed(LocalAuths), hal_info, boot_info)

\* C38, as claimed: the outcome of the version checks does not depend on the
\* order of the parameters in the authorizations, and a keyblob with any
\* field greater than the current value is rejected with InvalidKeyBlob, even
\* when another field is less than current.
C38_OrderIndependent ==
    VersionsChecked =>
        /\ kb_last.result = ReversedResult
        /\ GreaterFields # {} => kb_last.result = "InvalidKeyBlob"

\* C38, amended: whether the keyblob is accepted does not depend on the
\* order of the parameters, but which error rejects it does: the first
\* differing field in authorization order decides (so the last one decides
\* for the opposite order). A field that asks for an upgrade (a value below
\* current, or a non-zero OsVersion against a current os_version of 0) gives
\* KeyRequiresUpgrade, any other differing field InvalidKeyBlob; the outcome
\* is the same in both orders when the differing fields are all of one kind.
C38_FirstDifferingDecides ==
    VersionsChecked =>
        /\ (kb_last.result = "Ok") <=> (ReversedResult = "Ok")
        /\ (kb_last.result = "Ok") <=> (Differing = {})
        /\ Differing # {} =>
               LET first == CHOOSE i \in Differing : \A j \in Differing : i <= j
                   last == CHOOSE i \in Differing : \A j \in Differing : j <= i
                   Outcome(i) == IF i \in OldFields THEN "KeyRequiresUpgrade"
                                 ELSE "InvalidKeyBlob"
               IN  /\ kb_last.result = Outcome(first)
                   /\ ReversedResult = Outcome(last)
        /\ (OldFields = {} \/ OldFields = Differing) => kb_last.result = ReversedResult

\* C38 witness: a keyblob whose first field is below its current value and
\* whose second field is above it has been checked: it asks for an upgrade,
\* and would be an invalid keyblob with the fields in the opposite order.
C38_Witness ==
    /\ VersionsChecked
    /\ Len(LocalAuths) = 2
    /\ 1 \in OldFields /\ 2 \in GreaterFields
    /\ kb_last.result = "KeyRequiresUpgrade"
    /\ ReversedResult = "InvalidKeyBlob"

\* C39: version checks compare only against latched values: with hal_info
\* unset no OsVersion, OsPatchlevel or VendorPatchlevel is checked and with
\* boot_info unset no BootPatchlevel, so a keyblob whose version fields all
\* lack a latched value is returned as valid whatever values they hold; a
\* keyblob with no characteristics entry at the TA's security level is
\* rejected with InvalidKeyBlob.
C39_OnlyLatchedCompared ==
    kb_last.op = "keyblob_decrypt" =>
        /\ LocalEntries = {} => kb_last.result = "InvalidKeyBlob" /\ kb_last.out = None
        /\ LocalEntries # {} =>
               /\ kb_last.result = "Ok"
                      <=> \A i \in 1..Len(LocalAuths) :
                              LET param == LocalAuths[i]
                              IN  \/ param[1] \in {"OsVersion", "OsPatchlevel", "VendorPatchlevel"}
                                         /\ hal_info = None
                                  \/ param[1] = "BootPatchlevel" /\ boot_info = None
                                  \/ param[1] \notin {"OsVersion", "OsPatchlevel",
                                                      "VendorPatchlevel", "BootPatchlevel"}
                                  \/ i \notin Differing
               /\ kb_last.result = "Ok" => kb_last.out = Some(kb_last.plaintext)

\* C39 witness: with neither hal_info nor boot_info latched, a keyblob
\* carrying an OS patchlevel and a boot patchlevel has been returned as valid.
C39_Witness ==
    /\ VersionsChecked
    /\ hal_info = None /\ boot_info = None
    /\ \E v \in Patchlevels : LocalAuths = <<OsPatchlevel(v), BootPatchlevel(MaxPatchlevel)>>
    /\ kb_last.result = "Ok"

-----------------------------------------------------------------------------
(* Claims about the root of trust, checked under Spec *)

\* C32: in every reachable state of the TA, rot_data (the root-of-trust
\* bytes bound into keyblobs) is set exactly when boot_info is set, on a TEE
\* and on a StrongBox, whether boot_info was latched by set_boot_info or by
\* send_root_of_trust; so root_of_trust() succeeds whenever boot_info is
\* latched.
C32_RotDataWithBootInfo == (rot_data # None) <=> (boot_info # None)

-----------------------------------------------------------------------------
(* KeyMintTa::add_keymint_tags, and keys used in the boot that tagged them *)

\* KeyParam::Origin
Origin(o) == <<"Origin", o>>

\* A plausible slip: values that are not latched are tagged as 0
\* (unwrap_or_default).
keymint_tags_default(hal, boot, origin) ==
    <<Origin(origin),
      OsVersion(IF hal # None THEN Unwrap(hal).os_version ELSE 0),
      OsPatchlevel(IF hal # None THEN Unwrap(hal).os_patchlevel ELSE 0),
      VendorPatchlevel(IF hal # None THEN Unwrap(hal).vendor_patchlevel ELSE 0),
      BootPatchlevel(IF boot # None THEN Unwrap(boot).boot_patchlevel ELSE 0)>>

\* The tags add_keymint_tags appends to the entry at the TA's level.
keymint_tags(hal, boot, origin) ==
    <<Origin(origin)>>
        \o (IF hal # None
            THEN <<OsVersion(Unwrap(hal).os_version),
                   OsPatchlevel(Unwrap(hal).os_patchlevel),
                   VendorPatchlevel(Unwrap(hal).vendor_patchlevel)>>
            ELSE <<>>)
        \o (IF boot # None THEN <<BootPatchlevel(Unwrap(boot).boot_patchlevel)>> ELSE <<>>)

\* KeyMintTa::add_keymint_tags(chars, origin) on a TA at `level` with the
\* latched values hal and boot: the first entry at the TA's level is
\* extended (allocation failures of try_push are left out); without such an
\* entry the result is UnknownError.
add_keymint_tags(level, hal, boot, chars, origin) ==
    LET at == {i \in 1..Len(chars) : chars[i].security_level = level}
    IN  IF at = {} THEN [result |-> "UnknownError", chars |-> chars]
        ELSE LET i == CHOOSE k \in at : \A j \in at : k <= j
             IN  [result |-> "Ok",
                  chars |-> [chars EXCEPT ![i].authorizations =
                                              @ \o keymint_tags(hal, boot, origin)]]

KeyOrigins == {"Generated", "Imported"}

\* A key is created: the characteristics asked for are extended by
\* add_keymint_tags and become those of the new keyblob.
AddKeymintTagsReq(shape, origin) ==
    LET chars == VersionCharacteristics(shape.key_level, <<Purpose("Sign")>>,
                                        shape.keystore_entry)
        r == add_keymint_tags(security_level, hal_info, boot_info, chars, origin)
    IN  /\ kb_last.op = "none"
        /\ kb_last' = [op |-> "add_keymint_tags",
                       plaintext |-> PlaintextKeyBlob(r.chars, shape.key_material),
                       result |-> r.result, out |-> None]
        /\ UNCHANGED <<ta_vars, uc_vars, wire, sdd_present, sdd_slots, drop_log, kb_issued>>

AddKeymintTags == \E shape \in KeyShapes, origin \in KeyOrigins : AddKeymintTagsReq(shape, origin)

\* The key created earlier in this boot is used: keyblob_decrypt of its
\* keyblob as sealed by this device.
TaggedKeyblobDecrypt ==
    LET sealed == encrypt(sdd_present, sdd_slots, DeviceRootKey, kb_last.plaintext, <<>>,
                          Env("none", FALSE, 0, NextSecret, NextKdi))
        r == keyblob_decrypt(security_level, hal_info, boot_info, sdd_present, sdd_slots,
                             Unwrap(sealed.keyblob), <<>>)
    IN  /\ kb_last.op \in {"add_keymint_tags", "keyblob_decrypt"}
        /\ kb_last.op = "add_keymint_tags" => kb_last.result = "Ok"
        /\ sealed.result = "Ok"
        /\ kb_last' = [op |-> "keyblob_decrypt", plaintext |-> kb_last.plaintext,
                       result |-> r.result, out |-> r.out]
        /\ UNCHANGED <<ta_vars, uc_vars, wire, sdd_present, sdd_slots, drop_log, kb_issued>>

SetVerifiedBootInfo == \E b \in VerifiedBootInfo : SetBootInfoReq(b)

NextTagged ==
    \/ SetHalInfo
    \/ SetVerifiedBootInfo
    \/ DeviceEarlyBootEnded
    \/ AddKeymintTags
    \/ TaggedKeyblobDecrypt

SpecTagged == InitVersions /\ [][NextTagged]_vars

\* C37: a key tagged in the current boot is usable in the current boot: for
\* every interleaving of set_boot_info, set_hal_info, early_boot_ended and
\* key creation, the characteristics extended by add_keymint_tags pass the
\* version checks of keyblob_decrypt at any later point of the boot (the
\* keyblob is returned), also when os_version is 0.
C37_TaggedKeyUsable ==
    kb_last.op = "keyblob_decrypt" =>
        /\ kb_last.result = "Ok"
        /\ kb_last.out = Some(kb_last.plaintext)

\* C37 witness: a key tagged with the boot patchlevel before hal_info was
\* set has been used after hal_info was latched with os_version 0.
C37_Witness ==
    /\ VersionsChecked
    /\ kb_last.result = "Ok"
    /\ OsVersionZero
    /\ \E o \in KeyOrigins, v \in Patchlevels :
           LocalAuths = <<Purpose("Sign"), Origin(o), BootPatchlevel(v)>>

-----------------------------------------------------------------------------
(* The root-of-trust transfer to a StrongBox TA *)

NextRot ==
    \/ SharedSecretComputeSharedSecret
    \/ GetRootOfTrustChallenge
    \/ SendRootOfTrust
    \/ SetVerifiedBootInfo

SpecRot == Init /\ [][NextRot]_vars

\* What send_root_of_trust wants of the bytes msg in the current state: a
\* COSE_Mac0 with a payload that decodes as BootInfo, and a tag that is the
\* HMAC under the agreed key over the current rot_challenge and the payload.
RotAuthentic(msg) ==
    /\ hmac_key # None
    /\ msg.decodes
    /\ msg.payload # None
    /\ BootInfo_from_tagged_slice(Unwrap(msg.payload)) # None
    /\ msg.tag = HmacSha256(Unwrap(hmac_key), Mac0Tbm(rot_challenge, Unwrap(msg.payload)))

\* C35: on a StrongBox TA send_root_of_trust latches boot_info only when
\* boot_info is unset, the HMAC key has been agreed, the message decodes as
\* a COSE_Mac0 with a payload that decodes as BootInfo and its tag verifies
\* under the HMAC key over the TA's current rot_challenge, and boot_info is
\* then the BootInfo of the payload; when one of the checks on the key or on
\* the message fails the call returns an error and boot_info is unchanged
\* (with all of them passed it returns Ok, ignoring the message if boot_info
\* is already set).
C35_SendRootOfTrustChecks ==
    [][\A msg \in RotMessages :
           (is_strongbox /\ SendRootOfTrustReq(msg)) =>
               /\ boot_info' # boot_info =>
                      /\ boot_info = None
                      /\ RotAuthentic(msg)
                      /\ boot_info' = BootInfo_from_tagged_slice(Unwrap(msg.payload))
               /\ ~RotAuthentic(msg) => (rsp'.error_code # "Ok" /\ boot_info' = boot_info)
               /\ RotAuthentic(msg) => (rsp'.error_code = "Ok" /\ boot_info' # None)]_vars

\* C35 witness: a StrongBox TA with an agreed HMAC key and a challenge it
\* handed out has latched the boot_info of a root-of-trust message.
C35_Witness ==
    /\ is_strongbox
    /\ rsp.op = "SendRootOfTrust" /\ rsp.error_code = "Ok" /\ note = "stored"
    /\ hmac_key # None
    /\ rot_challenge # ZeroChallenge
    /\ boot_info # None

\* C36: challenge freshness: on a StrongBox TA send_root_of_trust never
\* latches boot_info unless get_root_of_trust_challenge has been called
\* earlier in the same boot (which is when rot_challenge is no longer the
\* all-zero value it is constructed with): no root-of-trust message is
\* accepted against the initial all-zero rot_challenge.
C36_ChallengeFreshness ==
    [][(is_strongbox /\ rsp'.op = "SendRootOfTrust" /\ boot_info' # boot_info)
           => rot_challenge # ZeroChallenge]_vars

-----------------------------------------------------------------------------
(* HAL <-> wire conversion of key parameters (hal/src/hal.rs) *)

\* Every value held by a parameter is a sequence of integers. A wire u32 is
\* its two 16-bit halves <<high, low>> and a wire u64 its four 16-bit
\* quarters, high first; a HAL i32 is <<i>>; an i64 is <<high, q3, q4>>, the
\* high 32 bits as an i32 and the low 32 bits as two 16-bit halves (two's
\* complement: high * 2^32 + low); a bool is <<1>> or <<0>>; a blob is its
\* bytes; a wire enum value is <<k>>, its position in the declaration of the
\* enum, and a HAL enum value <<i>>, the i32 its newtype holds.
U32Values == {<<0, 0>>, <<0, 1>>, <<32767, 65535>>, <<32768, 0>>, <<65535, 65535>>}
U64Values == {h \o l : h \in U32Values, l \in {<<0, 0>>, <<65535, 65535>>}}

\* A plausible slip: a checked conversion that saturates instead of `as`.
as_i32_saturating(v) ==
    <<IF v[1] >= 32768 THEN 2147483647 ELSE v[1] * 65536 + v[2]>>

\* `v as i32` for a u32: the same 32 bits read as two's complement.
as_i32(v) ==
    <<IF v[1] >= 32768 THEN (v[1] - 65536) * 65536 + v[2] ELSE v[1] * 65536 + v[2]>>

\* `v as u32` for an i32.
as_u32(i) == <<(i[1] \div 65536) % 65536, i[1] % 65536>>

\* `v as i64` for a u64 and `v as u64` for an i64.
as_i64(v) == as_i32(<<v[1], v[2]>>) \o <<v[3], v[4]>>
as_u64(i) == as_u32(<<i[1]>>) \o <<i[2], i[3]>>

\* keymint::KeyParameterValue and keymint::KeyParameter of the HAL.
KeyParameterValue(kind, v) == [kind |-> kind, v |-> v]
KeyParameter(tag, value) == [tag |-> tag, value |-> value]

\* wire::keymint::KeyParam: the variant and what it holds (<<>> for the
\* variants that hold nothing).
KeyParam(param, v) == [param |-> param, v |-> v]

\* The discriminants of the wire enums carried by key parameters, in
\* declaration order (kmr_wire::keymint, #[repr(i32)]), by the name of the
\* KeyParameterValue variant that carries the enum.
EnumDiscriminants ==
    [KeyPurpose |-> <<0, 1, 2, 3, 4, 5, 6, 7>>,
     Algorithm |-> <<1, 3, 32, 33, 128>>,
     BlockMode |-> <<1, 2, 3, 32>>,
     Digest |-> <<0, 1, 2, 3, 4, 5, 6>>,
     PaddingMode |-> <<1, 2, 3, 4, 5, 64>>,
     EcCurve |-> <<0, 1, 2, 3, 4>>,
     Origin |-> <<0, 1, 2, 3, 4>>]

\* Fromm<$wenum> for $henum (enum_convert!): Self(val as i32).
enum_fromm(kind, val) == <<EnumDiscriminants[kind][val[1]]>>

\* The arms of Fromm<KeyParam> for KeyParameter, in source order: the HAL
\* tag, the KeyParameterValue variant and how the held value is converted.
FrommArms ==
    {[param |-> "Purpose", tag |-> "PURPOSE", kind |-> "KeyPurpose", conv |-> "innto"],
     [param |-> "Algorithm", tag |-> "ALGORITHM", kind |-> "Algorithm", conv |-> "innto"],
     [param |-> "BlockMode", tag |-> "BLOCK_MODE", kind |-> "BlockMode", conv |-> "innto"],
     [param |-> "Digest", tag |-> "DIGEST", kind |-> "Digest", conv |-> "innto"],
     [param |-> "Padding", tag |-> "PADDING", kind |-> "PaddingMode", conv |-> "innto"],
     [param |-> "EcCurve", tag |-> "EC_CURVE", kind |-> "EcCurve", conv |-> "innto"],
     [param |-> "RsaOaepMgfDigest", tag |-> "RSA_OAEP_MGF_DIGEST", kind |-> "Digest", conv |-> "innto"],
     [param |-> "Origin", tag |-> "ORIGIN", kind |-> "Origin", conv |-> "innto"],
     [param |-> "KeySize", tag |-> "KEY_SIZE", kind |-> "Integer", conv |-> "as_i32"],
     [param |-> "MinMacLength", tag |-> "MIN_MAC_LENGTH", kind |-> "Integer", conv |-> "as_i32"],
     [param |-> "MaxUsesPerBoot", tag |-> "MAX_USES_PER_BOOT", kind |-> "Integer", conv |-> "as_i32"],
     [param |-> "UsageCountLimit", tag |-> "USAGE_COUNT_LIMIT", kind |-> "Integer", conv |-> "as_i32"],
     [param |-> "UserId", tag |-> "USER_ID", kind |-> "Integer", conv |-> "as_i32"],
     [param |-> "UserAuthType", tag |-> "USER_AUTH_TYPE", kind |-> "HardwareAuthenticatorType", conv |-> "auth_type"],
     [param |-> "AuthTimeout", tag |-> "AUTH_TIMEOUT", kind |-> "Integer", conv |-> "as_i32"],
     [param |-> "OsVersion", tag |-> "OS_VERSION", kind |-> "Integer", conv |-> "as_i32"],
     [param |-> "OsPatchlevel", tag |-> "OS_PATCHLEVEL", kind |-> "Integer", conv |-> "as_i32"],
     [param |-> "VendorPatchlevel", tag |-> "VENDOR_PATCHLEVEL", kind |-> "Integer", conv |-> "as_i32"],
     [param |-> "BootPatchlevel", tag |-> "BOOT_PATCHLEVEL", kind |-> "Integer", conv |-> "as_i32"],
     [param |-> "MacLength", tag |-> "MAC_LENGTH", kind |-> "Integer", conv |-> "as_i32"],
     [param |-> "MaxBootLevel", tag |-> "MAX_BOOT_LEVEL", kind |-> "Integer", conv |-> "as_i32"],
     [param |-> "RsaPublicExponent", tag |-> "RSA_PUBLIC_EXPONENT", kind |-> "LongInteger", conv |-> "as_i64"],
     [param |-> "UserSecureId", tag |-> "USER_SECURE_ID", kind |-> "LongInteger", conv |-> "as_i64"],
     [param |-> "CallerNonce", tag |-> "CALLER_NONCE", kind |-> "BoolValue", conv |-> "true"],
     [param |-> "IncludeUniqueId", tag |-> "INCLUDE_UNIQUE_ID", kind |-> "BoolValue", conv |-> "true"],
     [param |-> "BootloaderOnly", tag |-> "BOOTLOADER_ONLY", kind |-> "BoolValue", conv |-> "true"],
     [param |-> "RollbackResistance", tag |-> "ROLLBACK_RESISTANCE", kind |-> "BoolValue", conv |-> "true"],
     [param |-> "EarlyBootOnly", tag |-> "EARLY_BOOT_ONLY", kind |-> "BoolValue", conv |-> "true"],
     [param |-> "AllowWhileOnBody", tag |-> "ALLOW_WHILE_ON_BODY", kind |-> "BoolValue", conv |-> "true"],
     [param |-> "NoAuthRequired", tag |-> "NO_AUTH_REQUIRED", kind |-> "BoolValue", conv |-> "true"],
     [param |-> "TrustedUserPresenceRequired", tag |-> "TRUSTED_USER_PRESENCE_REQUIRED", kind |-> "BoolValue", conv |-> "true"],
     [param |-> "TrustedConfirmationRequired", tag |-> "TRUSTED_CONFIRMATION_REQUIRED", kind |-> "BoolValue", conv |-> "true"],
     [param |-> "UnlockedDeviceRequired", tag |-> "UNLOCKED_DEVICE_REQUIRED", kind |-> "BoolValue", conv |-> "true"],
     [param |-> "DeviceUniqueAttestation", tag |-> "DEVICE_UNIQUE_ATTESTATION", kind |-> "BoolValue", conv |-> "true"],
     [param |-> "StorageKey", tag |-> "STORAGE_KEY", kind |-> "BoolValue", conv |-> "true"],
     [param |-> "ResetSinceIdRotation", tag |-> "RESET_SINCE_ID_ROTATION", kind |-> "BoolValue", conv |-> "true"],
     [param |-> "ActiveDatetime", tag |-> "ACTIVE_DATETIME", kind |-> "DateTime", conv |-> "ms_since_epoch"],
     [param |-> "OriginationExpireDatetime", tag |-> "ORIGINATION_EXPIRE_DATETIME", kind |-> "DateTime", conv |-> "ms_since_epoch"],
     [param |-> "UsageExpireDatetime", tag |-> "USAGE_EXPIRE_DATETIME", kind |-> "DateTime", conv |-> "ms_since_epoch"],
     [param |-> "CreationDatetime", tag |-> "CREATION_DATETIME", kind |-> "DateTime", conv |-> "ms_since_epoch"],
     [param |-> "CertificateNotBefore", tag |-> "CERTIFICATE_NOT_BEFORE", kind |-> "DateTime", conv |-> "ms_since_epoch"],
     [param |-> "CertificateNotAfter", tag |-> "CERTIFICATE_NOT_AFTER", kind |-> "DateTime", conv |-> "ms_since_epoch"],
     [param |-> "ApplicationId", tag |-> "APPLICATION_ID", kind |-> "Blob", conv |-> "blob"],
     [param |-> "ApplicationData", tag |-> "APPLICATION_DATA", kind |-> "Blob", conv |-> "blob"],
     [param |-> "AttestationChallenge", tag |-> "ATTESTATION_CHALLENGE", kind |-> "Blob", conv |-> "blob"],
     [param |-> "AttestationApplicationId", tag |-> "ATTESTATION_APPLICATION_ID", kind |-> "Blob", conv |-> "blob"],
     [param |-> "AttestationIdBrand", tag |-> "ATTESTATION_ID_BRAND", kind |-> "Blob", conv |-> "blob"],
     [param |-> "AttestationIdDevice", tag |-> "ATTESTATION_ID_DEVICE", kind |-> "Blob", conv |-> "blob"],
     [param |-> "AttestationIdProduct", tag |-> "ATTESTATION_ID_PRODUCT", kind |-> "Blob", conv |-> "blob"],
     [param |-> "AttestationIdSerial", tag |-> "ATTESTATION_ID_SERIAL", kind |-> "Blob", conv |-> "blob"],
     [param |-> "AttestationIdImei", tag |-> "ATTESTATION_ID_IMEI", kind |-> "Blob", conv |-> "blob"],
     [param |-> "AttestationIdSecondImei", tag |-> "ATTESTATION_ID_SECOND_IMEI", kind |-> "Blob", conv |-> "blob"],
     [param |-> "AttestationIdMeid", tag |-> "ATTESTATION_ID_MEID", kind |-> "Blob", conv |-> "blob"],
     [param |-> "AttestationIdManufacturer", tag |-> "ATTESTATION_ID_MANUFACTURER", kind |-> "Blob", conv |-> "blob"],
     [param |-> "AttestationIdModel", tag |-> "ATTESTATION_ID_MODEL", kind |-> "Blob", conv |-> "blob"],
     [param |-> "Nonce", tag |-> "NONCE", kind |-> "Blob", conv |-> "blob"],
     [param |-> "RootOfTrust", tag |-> "ROOT_OF_TRUST", kind |-> "Blob", conv |-> "blob"],
     [param |-> "CertificateSerial", tag |-> "CERTIFICATE_SERIAL", kind |-> "Blob", conv |-> "blob"],
     [param |-> "CertificateSubject", tag |-> "CERTIFICATE_SUBJECT", kind |-> "Blob", conv |-> "blob"],
     [param |-> "ModuleHash", tag |-> "MODULE_HASH", kind |-> "Blob", conv |-> "blob"]}

\* The arms of TryFromm<&KeyParameter> for Option<KeyParam> that build a
\* KeyParam, in source order: the KeyParam variant, the KeyParameterValue
\* variant wanted (value_of!, check_bool!, clone_blob!) and the conversion.
TryFrommArms ==
    {[tag |-> "PURPOSE", param |-> "Purpose", kind |-> "KeyPurpose", conv |-> "try_innto"],
     [tag |-> "ALGORITHM", param |-> "Algorithm", kind |-> "Algorithm", conv |-> "try_innto"],
     [tag |-> "BLOCK_MODE", param |-> "BlockMode", kind |-> "BlockMode", conv |-> "try_innto"],
     [tag |-> "DIGEST", param |-> "Digest", kind |-> "Digest", conv |-> "try_innto"],
     [tag |-> "PADDING", param |-> "Padding", kind |-> "PaddingMode", conv |-> "try_innto"],
     [tag |-> "EC_CURVE", param |-> "EcCurve", kind |-> "EcCurve", conv |-> "try_innto"],
     [tag |-> "RSA_OAEP_MGF_DIGEST", param |-> "RsaOaepMgfDigest", kind |-> "Digest", conv |-> "try_innto"],
     [tag |-> "ORIGIN", param |-> "Origin", kind |-> "Origin", conv |-> "try_innto"],
     [tag |-> "USER_AUTH_TYPE", param |-> "UserAuthType", kind |-> "HardwareAuthenticatorType", conv |-> "auth_type"],
     [tag |-> "KEY_SIZE", param |-> "KeySize", kind |-> "Integer", conv |-> "as_u32"],
     [tag |-> "MIN_MAC_LENGTH", param |-> "MinMacLength", kind |-> "Integer", conv |-> "as_u32"],
     [tag |-> "MAX_USES_PER_BOOT", param |-> "MaxUsesPerBoot", kind |-> "Integer", conv |-> "as_u32"],
     [tag |-> "USAGE_COUNT_LIMIT", param |-> "UsageCountLimit", kind |-> "Integer", conv |-> "as_u32"],
     [tag |-> "USER_ID", param |-> "UserId", kind |-> "Integer", conv |-> "as_u32"],
     [tag |-> "AUTH_TIMEOUT", param |-> "AuthTimeout", kind |-> "Integer", conv |-> "as_u32"],
     [tag |-> "OS_VERSION", param |-> "OsVersion", kind |-> "Integer", conv |-> "as_u32"],
     [tag |-> "OS_PATCHLEVEL", param |-> "OsPatchlevel", kind |-> "Integer", conv |-> "as_u32"],
     [tag |-> "VENDOR_PATCHLEVEL", param |-> "VendorPatchlevel", kind |-> "Integer", conv |-> "as_u32"],
     [tag |-> "BOOT_PATCHLEVEL", param |-> "BootPatchlevel", kind |-> "Integer", conv |-> "as_u32"],
     [tag |-> "MAC_LENGTH", param |-> "MacLength", kind |-> "Integer", conv |-> "as_u32"],
     [tag |-> "MAX_BOOT_LEVEL", param |-> "MaxBootLevel", kind |-> "Integer", conv |-> "as_u32"],
     [tag |-> "RSA_PUBLIC_EXPONENT", param |-> "RsaPublicExponent", kind |-> "LongInteger", conv |-> "as_u64"],
     [tag |-> "USER_SECURE_ID", param |-> "UserSecureId", kind |-> "LongInteger", conv |-> "as_u64"],
     [tag |-> "CALLER_NONCE", param |-> "CallerNonce", kind |-> "BoolValue", conv |-> "check_bool"],
     [tag |-> "INCLUDE_UNIQUE_ID", param |-> "IncludeUniqueId", kind |-> "BoolValue", conv |-> "check_bool"],
     [tag |-> "BOOTLOADER_ONLY", param |-> "BootloaderOnly", kind |-> "BoolValue", conv |-> "check_bool"],
     [tag |-> "ROLLBACK_RESISTANCE", param |-> "RollbackResistance", kind |-> "BoolValue", conv |-> "check_bool"],
     [tag |-> "EARLY_BOOT_ONLY", param |-> "EarlyBootOnly", kind |-> "BoolValue", conv |-> "check_bool"],
     [tag |-> "NO_AUTH_REQUIRED", param |-> "NoAuthRequired", kind |-> "BoolValue", conv |-> "check_bool"],
     [tag |-> "ALLOW_WHILE_ON_BODY", param |-> "AllowWhileOnBody", kind |-> "BoolValue", conv |-> "check_bool"],
     [tag |-> "TRUSTED_USER_PRESENCE_REQUIRED", param |-> "TrustedUserPresenceRequired", kind |-> "BoolValue", conv |-> "check_bool"],
     [tag |-> "TRUSTED_CONFIRMATION_REQUIRED", param |-> "TrustedConfirmationRequired", kind |-> "BoolValue", conv |-> "check_bool"],
     [tag |-> "UNLOCKED_DEVICE_REQUIRED", param |-> "UnlockedDeviceRequired", kind |-> "BoolValue", conv |-> "check_bool"],
     [tag |-> "DEVICE_UNIQUE_ATTESTATION", param |-> "DeviceUniqueAttestation", kind |-> "BoolValue", conv |-> "check_bool"],
     [tag |-> "STORAGE_KEY", param |-> "StorageKey", kind |-> "BoolValue", conv |-> "check_bool"],
     [tag |-> "RESET_SINCE_ID_ROTATION", param |-> "ResetSinceIdRotation", kind |-> "BoolValue", conv |-> "check_bool"],
     [tag |-> "ACTIVE_DATETIME", param |-> "ActiveDatetime", kind |-> "DateTime", conv |-> "date_time"],
     [tag |-> "ORIGINATION_EXPIRE_DATETIME", param |-> "OriginationExpireDatetime", kind |-> "DateTime", conv |-> "date_time"],
     [tag |-> "USAGE_EXPIRE_DATETIME", param |-> "UsageExpireDatetime", kind |-> "DateTime", conv |-> "date_time"],
     [tag |-> "CREATION_DATETIME", param |-> "CreationDatetime", kind |-> "DateTime", conv |-> "date_time"],
     [tag |-> "CERTIFICATE_NOT_BEFORE", param |-> "CertificateNotBefore", kind |-> "DateTime", conv |-> "date_time"],
     [tag |-> "CERTIFICATE_NOT_AFTER", param |-> "CertificateNotAfter", kind |-> "DateTime", conv |-> "date_time"],
     [tag |-> "APPLICATION_ID", param |-> "ApplicationId", kind |-> "Blob", conv |-> "clone_blob"],
     [tag |-> "APPLICATION_DATA", param |-> "ApplicationData", kind |-> "Blob", conv |-> "clone_blob"],
     [tag |-> "ROOT_OF_TRUST", param |-> "RootOfTrust", kind |-> "Blob", conv |-> "clone_blob"],
     [tag |-> "ATTESTATION_CHALLENGE", param |-> "AttestationChallenge", kind |-> "Blob", conv |-> "clone_blob"],
     [tag |-> "ATTESTATION_APPLICATION_ID", param |-> "AttestationApplicationId", kind |-> "Blob", conv |-> "clone_blob"],
     [tag |-> "ATTESTATION_ID_BRAND", param |-> "AttestationIdBrand", kind |-> "Blob", conv |-> "clone_blob"],
     [tag |-> "ATTESTATION_ID_DEVICE", param |-> "AttestationIdDevice", kind |-> "Blob", conv |-> "clone_blob"],
     [tag |-> "ATTESTATION_ID_PRODUCT", param |-> "AttestationIdProduct", kind |-> "Blob", conv |-> "clone_blob"],
     [tag |-> "ATTESTATION_ID_SERIAL", param |-> "AttestationIdSerial", kind |-> "Blob", conv |-> "clone_blob"],
     [tag |-> "ATTESTATION_ID_IMEI", param |-> "AttestationIdImei", kind |-> "Blob", conv |-> "clone_blob"],
     [tag |-> "ATTESTATION_ID_SECOND_IMEI", param |-> "AttestationIdSecondImei", kind |-> "Blob", conv |-> "clone_blob"],
     [tag |-> "ATTESTATION_ID_MEID", param |-> "AttestationIdMeid", kind |-> "Blob", conv |-> "clone_blob"],
     [tag |-> "ATTESTATION_ID_MANUFACTURER", param |-> "AttestationIdManufacturer", kind |-> "Blob", conv |-> "clone_blob"],
     [tag |-> "ATTESTATION_ID_MODEL", param |-> "AttestationIdModel", kind |-> "Blob", conv |-> "clone_blob"],
     [tag |-> "NONCE", param |-> "Nonce", kind |-> "Blob", conv |-> "clone_blob"],
     [tag |-> "CERTIFICATE_SERIAL", param |-> "CertificateSerial", kind |-> "Blob", conv |-> "clone_blob"],
     [tag |-> "CERTIFICATE_SUBJECT", param |-> "CertificateSubject", kind |-> "Blob", conv |-> "clone_blob"],
     [tag |-> "MODULE_HASH", param |-> "ModuleHash", kind |-> "Blob", conv |-> "clone_blob"]}

\* The tags of the "Unsupported variants" arm.
UnsupportedTags ==
    {"UNIQUE_ID", "HARDWARE_TYPE", "MIN_SECONDS_BETWEEN_OPS", "IDENTITY_CREDENTIAL_KEY",
     "ASSOCIATED_DATA", "CONFIRMATION_TOKEN"}

\* Fromm<wire::keymint::KeyParam> for keymint::KeyParameter
KeyParam_fromm(val) ==
    LET arm == CHOOSE a \in FrommArms : a.param = val.param
    IN  KeyParameter(arm.tag, KeyParameterValue(arm.kind,
            CASE arm.conv = "innto" -> enum_fromm(arm.kind, val.v)
              [] arm.conv \in {"as_i32", "auth_type"} -> as_i32(val.v)
              [] arm.conv = "as_i64" -> as_i64(val.v)
              [] arm.conv = "true" -> <<1>>
              [] arm.conv = "ms_since_epoch" -> val.v
              [] arm.conv = "blob" -> val.v))

\* Result<Option<KeyParam>, ValueNotRecognized>
ConvOk(val) == [ok |-> TRUE, val |-> val, err |-> "none"]
ConvErr(err) == [ok |-> FALSE, val |-> None, err |-> err]

\* TryFromm<$henum> for $wenum (enum_convert!): Self::try_from(val.0).
enum_try_fromm(kind, val) ==
    LET at == {k \in DOMAIN EnumDiscriminants[kind] : EnumDiscriminants[kind][k] = val[1]}
    IN  IF at # {} THEN ConvOk(Some(<<CHOOSE k \in at : TRUE>>)) ELSE ConvErr(kind)

\* A plausible slip: the catch-all arm fails like the unsupported tags.
KeyParam_try_fromm_strict(val) ==
    IF val.tag \in UnsupportedTags \/ ~(\E a \in TryFrommArms : a.tag = val.tag)
    THEN ConvErr("Tag")
    ELSE LET arm == CHOOSE a \in TryFrommArms : a.tag = val.tag
             v == val.value.v
         IN  IF arm.conv = "check_bool"
             THEN (IF val.value.kind = "BoolValue" /\ v = <<1>>
                   THEN ConvOk(Some(KeyParam(arm.param, <<>>))) ELSE ConvErr("Bool"))
             ELSE IF val.value.kind # arm.kind THEN ConvErr(arm.kind)
             ELSE CASE arm.conv = "try_innto" ->
                           LET e == enum_try_fromm(arm.kind, v)
                           IN  IF e.ok THEN ConvOk(Some(KeyParam(arm.param, Unwrap(e.val))))
                               ELSE e
                    [] arm.conv \in {"as_u32", "auth_type"} ->
                           ConvOk(Some(KeyParam(arm.param, as_u32(v))))
                    [] arm.conv = "as_u64" -> ConvOk(Some(KeyParam(arm.param, as_u64(v))))
                    [] arm.conv = "date_time" ->
                           ConvOk(Some(KeyParam(arm.param, v)))
                    [] arm.conv = "clone_blob" -> ConvOk(Some(KeyParam(arm.param, v)))

\* TryFromm<&keymint::KeyParameter> for Option<KeyParam>
KeyParam_try_fromm(val) ==
    IF val.tag \in UnsupportedTags THEN ConvErr("Tag")
    ELSE IF ~(\E a \in TryFrommArms : a.tag = val.tag) THEN ConvOk(None)
    ELSE LET arm == CHOOSE a \in TryFrommArms : a.tag = val.tag
             v == val.value.v
         IN  IF arm.conv = "check_bool"
             THEN (IF val.value.kind = "BoolValue" /\ v = <<1>>
                   THEN ConvOk(Some(KeyParam(arm.param, <<>>))) ELSE ConvErr("Bool"))
             ELSE IF val.value.kind # arm.kind THEN ConvErr(arm.kind)
             ELSE CASE arm.conv = "try_innto" ->
                           LET e == enum_try_fromm(arm.kind, v)
                           IN  IF e.ok THEN ConvOk(Some(KeyParam(arm.param, Unwrap(e.val))))
                               ELSE e
                    [] arm.conv \in {"as_u32", "auth_type"} ->
                           ConvOk(Some(KeyParam(arm.param, as_u32(v))))
                    [] arm.conv = "as_u64" -> ConvOk(Some(KeyParam(arm.param, as_u64(v))))
                    [] arm.conv = "date_time" ->
                           ConvOk(Some(KeyParam(arm.param, v)))
                    [] arm.conv = "clone_blob" -> ConvOk(Some(KeyParam(arm.param, v)))

\* attest_key_params of TryFromm<AttestationKey>: filter_map(try_innto
\* transposed) collected into a Result: the first error ends it, Ok(None)
\* is left out.
RECURSIVE attest_key_params(_)
attest_key_params(params) ==
    IF params = <<>> THEN ConvOk(<<>>)
    ELSE LET p == KeyParam_try_fromm(Head(params))
         IN  IF ~p.ok THEN ConvErr(p.err)
             ELSE LET rest == attest_key_params(Tail(params))
                  IN  IF ~rest.ok THEN rest ELSE ConvOk(p.val \o rest.val)

-----------------------------------------------------------------------------
(* The conversion specification: key parameters crossing the HAL boundary *)

I64Values == {<<0, 0, 0>>, <<-1, 65535, 65535>>, <<2147483647, 65535, 65535>>}
Blobs == {<<>>, <<1, 2>>}

\* Every wire KeyParam variant, with values at the edges of its type.
WireKeyParams ==
    UNION {{KeyParam(a.param, v) :
                v \in CASE a.conv = "innto" ->
                               {<<k>> : k \in DOMAIN EnumDiscriminants[a.kind]}
                        [] a.conv \in {"as_i32", "auth_type"} -> U32Values
                        [] a.conv = "as_i64" -> U64Values
                        [] a.conv = "true" -> {<<>>}
                        [] a.conv = "ms_since_epoch" -> I64Values
                        [] a.conv = "blob" -> Blobs} : a \in FrommArms}

\* The values a HAL KeyParameter may carry: every variant met in the
\* conversions, booleans true and false, enums in and out of range.
HalValues ==
    {KeyParameterValue("Integer", <<i>>) : i \in {0, -1}}
        \cup {KeyParameterValue("LongInteger", <<-1, 65535, 65535>>),
              KeyParameterValue("DateTime", <<0, 0, 0>>)}
        \cup {KeyParameterValue("BoolValue", b) : b \in {<<0>>, <<1>>}}
        \cup {KeyParameterValue("Blob", <<1, 2>>),
              KeyParameterValue("HardwareAuthenticatorType", <<-1>>),
              KeyParameterValue("KeyPurpose", <<99>>)}
        \cup {KeyParameterValue(k, <<1>>) : k \in DOMAIN EnumDiscriminants}

\* The tags a HAL KeyParameter may carry: those of the wire parameters, the
\* unsupported ones and tags the conversion has no arm for.
UnknownTags == {"INVALID", "Tag(805306367)"}
HalTags == {a.tag : a \in FrommArms} \cup UnsupportedTags \cup UnknownTags
HalKeyParameters == {KeyParameter(t, v) : t \in HalTags, v \in HalValues}

\* The parameters a list is filled up with: one that is dropped, one that
\* converts, one that fails.
FillerParameters ==
    {KeyParameter("INVALID", KeyParameterValue("Integer", <<0>>)),
     KeyParameter("OS_VERSION", KeyParameterValue("Integer", <<-1>>)),
     KeyParameter("CALLER_NONCE", KeyParameterValue("BoolValue", <<0>>))}

AttestKeyParams ==
    {<<>>} \cup {<<p>> : p \in HalKeyParameters}
           \cup {<<p, q>> : p \in HalKeyParameters, q \in FillerParameters}
           \cup {<<q, p>> : p \in HalKeyParameters, q \in FillerParameters}

\* A wire KeyParam is sent to the HAL and comes back.
KeyParamFrommReq(p) ==
    /\ kb_last.op = "none"
    /\ kb_last' = [op |-> "fromm", param |-> p, hal |-> KeyParam_fromm(p),
                   back |-> KeyParam_try_fromm(KeyParam_fromm(p))]
    /\ UNCHANGED <<ta_vars, uc_vars, sdd_present, sdd_slots, drop_log, kb_issued, wire>>

KeyParamFromm == \E p \in WireKeyParams : KeyParamFrommReq(p)

\* An AttestationKey with the parameters params is converted to the wire.
AttestationKeyTryFrommReq(params) ==
    /\ kb_last.op = "none"
    /\ kb_last' = [op |-> "try_fromm", params |-> params,
                   each |-> [i \in 1..Len(params) |-> KeyParam_try_fromm(params[i])],
                   ret |-> attest_key_params(params)]
    /\ UNCHANGED <<ta_vars, uc_vars, sdd_present, sdd_slots, drop_log, kb_issued, wire>>

AttestationKeyTryFromm == \E params \in AttestKeyParams : AttestationKeyTryFrommReq(params)

NextHal == KeyParamFromm \/ AttestationKeyTryFromm

InitHal ==
    /\ TaIdle
    /\ UcIdle
    /\ sdd_present = FALSE
    /\ sdd_slots = [sl \in SlotIds |-> None]
    /\ drop_log = {}
    /\ kb_issued = {}
    /\ kb_last = [op |-> "none"]

SpecHal == InitHal /\ [][NextHal]_vars

\* The variant of KeyParameterValue that goes with a tag known to the wire.
KindOf(tag) == (CHOOSE a \in FrommArms : a.tag = tag).kind

\* The converted parameters of a list, those dropped left out.
RECURSIVE Kept(_)
Kept(each) ==
    IF each = <<>> THEN <<>> ELSE each[1].val \o Kept(Tail(each))

C40_WireHalRoundTrip ==
    kb_last.op = "fromm" =>
        /\ kb_last.back.ok
        /\ kb_last.back.val # None
        /\ Unwrap(kb_last.back.val).param = kb_last.param.param
        /\ Unwrap(kb_last.back.val).v = kb_last.param.v

\* C40 witness: a u32 parameter of value 2^31 went through the HAL as a
\* negative Integer and came back.
C40_Witness ==
    /\ kb_last.op = "fromm"
    /\ kb_last.param = KeyParam("UsageCountLimit", <<32768, 0>>)
    /\ kb_last.hal.value.kind = "Integer"
    /\ kb_last.hal.value.v[1] < 0
    /\ kb_last.back = ConvOk(Some(kb_last.param))

=============================================================================
